---- MODULE Spec2Model ----
(***************************************************************************)
(* HomeBoxClient (src/index.ts, lines 764-1034): the authenticated REST    *)
(* client of the HomeBox plugin.  One client instance, used sequentially:  *)
(* an operation runs from its call to its return or throw, suspended only  *)
(* at its awaits (the login exchange and the HTTP exchanges), where the    *)
(* remote service chooses the response.                                    *)
(*                                                                         *)
(* Encoding of JavaScript values.  A string is a sequence of characters    *)
(* (one-character TLA+ strings; identifiers such as "i1" count as one      *)
(* character).  A scalar is a pair <<type, chars>>.  An object is a set of *)
(* triples <<key, type, chars>>, one per own property.  A top-level JSON   *)
(* value is a record [t, s, o].                                            *)
(***************************************************************************)
EXTENDS Integers, Sequences, FiniteSets, TLC

VARIABLES
    client,     \* the instance: [made, config]; made = FALSE before new HomeBoxClient(..) returned
    ctor,       \* the last constructor call: its base URL and whether it threw
    token,      \* this.token (line 766): Null or a string
    op,         \* the operation in progress or last finished: [kind, pc, stage, item, req]
    trace,      \* the HTTP requests the current operation has sent, in order
    resps,      \* the responses it has received; resps[i] answers trace[i]
    outcome,    \* how the last operation ended: returned value or thrown error
    loginHits,  \* number of login exchanges that cached a non-empty token
    first,      \* kind of the first request this client ever sent
    procs,      \* concurrent use: the method call of each caller, with its request() calls
    issued,     \* concurrent use: the tokens the logins stored, and the one stored last
    tool,       \* the tool invocation in progress or last finished: [name, pc, params, result]
    runs        \* two runs of the plugin that differ in their secrets only

vars ==
    <<client, ctor, token, op, trace, resps, outcome, loginHits, first, procs, issued,
      tool, runs>>

\* The state of the sequential use and of the concurrent use.
seqVars == <<op, trace, resps, outcome, loginHits, first>>
concVars == <<procs, issued>>

\* Largest number of optional item fields a createItem caller supplies.
MaxSupplied == 2

-----------------------------------------------------------------------------
(* JavaScript values *)

Undefined == <<"undef", <<>>>>
Null == <<"null", <<>>>>
Str(s) == <<"str", s>>
Bool(b) == <<"bool", IF b THEN <<"true">> ELSE <<"false">>>>
Num(n) == <<"num", <<ToString(n)>>>>
Arr(s) == <<"arr", s>>

\* ToBoolean: undefined, null, "", false and 0 are falsy.
Truthy(v) ==
    CASE v[1] = "str" -> v[2] # <<>>
      [] v[1] = "bool" -> v[2] = <<"true">>
      [] v[1] = "num" -> v[2] # <<"0">>
      [] v[1] = "arr" -> TRUE
      [] OTHER -> FALSE

\* o.k : the value of property k, undefined when o has no such property.
Prop(o, k) ==
    IF \E e \in o : e[1] = k
    THEN LET e == CHOOSE x \in o : x[1] = k IN <<e[2], e[3]>>
    ELSE Undefined

Keys(o) == {e[1] : e \in o}

\* JSON.stringify of an object: properties whose value is undefined are left out.
JsonStringify(o) == {e \in o : e[2] # "undef"}

\* A top-level JSON value / a value an operation returns.
ObjValue(o) == [t |-> "obj", s |-> <<>>, o |-> o]
ArrValue(s) == [t |-> "arr", s |-> s, o |-> {}]
UndefValue == [t |-> "undef", s |-> <<>>, o |-> {}]

-----------------------------------------------------------------------------
(* Strings *)

UpperCase == <<"A", "B", "E", "F", "H", "I", "L", "P", "R", "S", "T">>
LowerCase == <<"a", "b", "e", "f", "h", "i", "l", "p", "r", "s", "t">>

toLowerCaseChar(c) ==
    IF \E i \in 1..Len(UpperCase) : UpperCase[i] = c
    THEN LowerCase[CHOOSE i \in 1..Len(UpperCase) : UpperCase[i] = c]
    ELSE c

toUpperCaseChar(c) ==
    IF \E i \in 1..Len(LowerCase) : LowerCase[i] = c
    THEN UpperCase[CHOOSE i \in 1..Len(LowerCase) : LowerCase[i] = c]
    ELSE c

\* String.prototype.toLowerCase
toLowerCase(s) == [i \in 1..Len(s) |-> toLowerCaseChar(s[i])]

\* String.prototype.startsWith
startsWith(s, p) == Len(s) >= Len(p) /\ SubSeq(s, 1, Len(p)) = p

HttpPrefix == <<"h", "t", "t", "p", ":", "/", "/">>
HttpsPrefix == <<"h", "t", "t", "p", "s", ":", "/", "/">>

-----------------------------------------------------------------------------
(* Constructor *)

SchemeError == <<"HomeBox baseUrl must use http:// or https:// scheme">>

\* Faulty variant: the scheme test without the toLowerCase of line 770.
SchemeAcceptedCaseSensitive(baseUrl) ==
    startsWith(baseUrl, HttpPrefix) \/ startsWith(baseUrl, HttpsPrefix)

\* Lines 770-771: the negation of the throw condition.
SchemeAccepted(baseUrl) ==
    LET url == toLowerCase(baseUrl)
    IN ~(~startsWith(url, HttpPrefix) /\ ~startsWith(url, HttpsPrefix))

NoConfig == [baseUrl |-> <<>>, username |-> <<>>, password |-> <<>>]

Username == <<"u">>
Password == <<"p", "w">>

\* The default base URL, http://localhost:3100 (host and port as one character each).
DefaultBaseUrl == HttpPrefix \o <<"localhost", ":", "3100">>

RECURSIVE CaseVariants(_)
CaseVariants(w) ==
    IF w = <<>> THEN {<<>>}
    ELSE {<<c>> \o r : c \in {w[1], toUpperCaseChar(w[1])}, r \in CaseVariants(Tail(w))}

\* Base URLs handed to the constructor: every capitalisation of a few schemes,
\* near misses of http/https, each with well-formed and malformed separators.
Schemes ==
    CaseVariants(<<"h", "t", "t", "p">>) \cup CaseVariants(<<"h", "t", "t", "p", "s">>)
    \cup CaseVariants(<<"f", "t", "p">>) \cup CaseVariants(<<"f", "i", "l", "e">>)
    \cup {<<>>, <<"h", "t", "t">>, <<"t", "t", "p">>, <<" ", "h", "t", "t", "p">>,
          <<"x", "h", "t", "t", "p">>, <<"h", "t", "t", "p", "x">>}
Separators ==
    {<<":", "/", "/">>, <<":", "/">>, <<"/", "/">>, <<":">>, <<>>, <<":", "/", "/", "/">>}
Hosts == {<<>>, <<"localhost">>}
BaseUrls == {s \o sep \o h : s \in Schemes, sep \in Separators, h \in Hosts}

\* new HomeBoxClient(config), lines 768-777.
Constructor(config) ==
    /\ ~client.made
    /\ IF SchemeAccepted(config.baseUrl)
       THEN /\ client' = [made |-> TRUE, config |-> config]
            /\ ctor' = [called |-> TRUE, baseUrl |-> config.baseUrl,
                        threw |-> FALSE, message |-> <<>>]
       ELSE /\ client' = client
            /\ ctor' = [called |-> TRUE, baseUrl |-> config.baseUrl,
                        threw |-> TRUE, message |-> SchemeError]
    /\ UNCHANGED <<token, op, trace, resps, outcome, loginHits, first>>
    /\ UNCHANGED <<concVars, tool, runs>>

-----------------------------------------------------------------------------
(* HTTP *)

\* A response of the remote service.  hasBody = FALSE is an empty body, on which
\* response.json() rejects with a SyntaxError.
Response(status, statusText, hasBody, body) ==
    [status |-> status, statusText |-> statusText, hasBody |-> hasBody, body |-> body]

\* Response.ok: the status is in the range 200-299.
ok(response) == response.status >= 200 /\ response.status <= 299

NoContent == Response(204, <<"No Content">>, FALSE, UndefValue)
EmptyOk == Response(200, <<"OK">>, FALSE, UndefValue)
OkJson(o) == Response(200, <<"OK">>, TRUE, ObjValue(o))
\* Non-success responses; the last one has the empty status text of HTTP/2.
ErrorResponses ==
    {Response(401, <<"Unauthorized">>, FALSE, UndefValue),
     Response(404, <<"Not Found">>, FALSE, UndefValue),
     Response(500, <<>>, TRUE, ObjValue({<<"error", "str", <<"x">>>>}))}

NoForm == [fileName |-> <<>>, type |-> Undefined, primary |-> Undefined,
           file |-> <<>>, boundary |-> <<>>]

\* The arguments of one this.request(endpoint, method, body) call; multipart marks
\* the upload attachFile sends by itself.
Call(endpoint, method, hasBody, body) ==
    [endpoint |-> endpoint, method |-> method, hasBody |-> hasBody, body |-> body,
     multipart |-> FALSE, form |-> NoForm]

NoCall == Call(<<>>, "", FALSE, {})

-----------------------------------------------------------------------------
(* ensureToken, lines 779-803 *)

Whitespace == {" ", "\t"}
BearerWord == <<"b", "e", "a", "r", "e", "r">>

RECURSIVE DropLeadingWhitespace(_)
DropLeadingWhitespace(s) ==
    IF s # <<>> /\ Head(s) \in Whitespace THEN DropLeadingWhitespace(Tail(s)) ELSE s

\* Faulty variant: the prefix matched without the i flag.
StripBearerCaseSensitive(s) ==
    IF /\ Len(s) >= Len(BearerWord) + 1
       /\ SubSeq(s, 1, Len(BearerWord)) = <<"B", "e", "a", "r", "e", "r">>
       /\ s[Len(BearerWord) + 1] \in Whitespace
    THEN DropLeadingWhitespace(SubSeq(s, Len(BearerWord) + 1, Len(s)))
    ELSE s

\* data.token.replace(/^Bearer\s+/i, ""), line 800.
StripBearer(s) ==
    IF /\ Len(s) >= Len(BearerWord) + 1
       /\ toLowerCase(SubSeq(s, 1, Len(BearerWord))) = BearerWord
       /\ s[Len(BearerWord) + 1] \in Whitespace
    THEN DropLeadingWhitespace(SubSeq(s, Len(BearerWord) + 1, Len(s)))
    ELSE s

\* Faulty variant: ensureToken without the early return of line 780.
TokenCachedNever(tok) == FALSE

\* Line 780: if (this.token) return this.token.
TokenCached(tok) == Truthy(tok)

\* The login fetch, lines 782-792.
LoginRequest(config) ==
    [kind |-> "login", method |-> "POST",
     url |-> config.baseUrl \o <<"/api/v1/users/login">>,
     contentType |-> <<"application/json">>, authorization |-> <<>>,
     hasBody |-> TRUE,
     body |-> {<<"username", "str", config.username>>, <<"password", "str", config.password>>},
     raw |-> <<>>]

LoginFailedMessage(response) == <<"HomeBox login failed: ">> \o response.statusText

\* Token strings the service may return from login.
LoginTokens ==
    {<<"t", "1">>,
     <<"B", "e", "a", "r", "e", "r", " ", "t", "2">>,
     <<"B", "e", "a", "r", "e", "r", " ">>}

LoginResponses ==
    ErrorResponses \cup {EmptyOk, OkJson({})}
    \cup {OkJson({<<"token", "str", t>>, <<"expiresAt", "str", <<"2030">>>>}) : t \in LoginTokens}

\* Faulty variant: the login response is parsed without the test of line 794.
LoginResultNoOkTest(response) ==
    IF ~response.hasBody
    THEN [threw |-> TRUE, error |-> "SyntaxError", message |-> <<"Unexpected end of JSON input">>,
          token |-> Null]
    ELSE IF Prop(response.body.o, "token")[1] # "str"
    THEN [threw |-> TRUE, error |-> "TypeError",
          message |-> <<"Cannot read properties of undefined (reading 'replace')">>,
          token |-> Null]
    ELSE [threw |-> FALSE, error |-> "", message |-> <<>>,
          token |-> Str(StripBearer(Prop(response.body.o, "token")[2]))]

\* Lines 794-802 on the login response: the error thrown, or the token stored.
LoginResult(response) ==
    IF ~ok(response)
    THEN [threw |-> TRUE, error |-> "Error", message |-> LoginFailedMessage(response),
          token |-> Null]
    ELSE IF ~response.hasBody
    THEN [threw |-> TRUE, error |-> "SyntaxError", message |-> <<"Unexpected end of JSON input">>,
          token |-> Null]
    ELSE IF Prop(response.body.o, "token")[1] # "str"
    THEN [threw |-> TRUE, error |-> "TypeError",
          message |-> <<"Cannot read properties of undefined (reading 'replace')">>,
          token |-> Null]
    ELSE [threw |-> FALSE, error |-> "", message |-> <<>>,
          token |-> Str(StripBearer(Prop(response.body.o, "token")[2]))]

-----------------------------------------------------------------------------
(* request, lines 805-833 *)

\* Faulty variant: the header without the token.
AuthorizationHeaderBare(tok) == <<"Bearer ">>

\* Line 817: `Bearer ${token}`.
AuthorizationHeader(tok) == <<"Bearer ">> \o tok[2]

\* Faulty variant: the message without the numeric status.
ApiErrorMessageNoStatus(response) == <<"HomeBox API error ">> \o response.statusText

\* Lines 823-825 and 972: `HomeBox API error ${response.status}: ${response.statusText}`.
ApiErrorMessage(response) ==
    <<"HomeBox API error ", ToString(response.status), ": ">> \o response.statusText

Threw(error, message) ==
    [kind |-> "threw", value |-> UndefValue, error |-> error, message |-> message]
Returned(value) == [kind |-> "returned", value |-> value, error |-> "", message |-> <<>>]
NoOutcome == [kind |-> "none", value |-> UndefValue, error |-> "", message |-> <<>>]

JsonOf(response) ==
    IF response.hasBody THEN Returned(response.body)
    ELSE Threw("SyntaxError", <<"Unexpected end of JSON input">>)

\* Faulty variant: request without the 204 branch of lines 828-830 (the earlier variant).
RequestResultNo204(response) ==
    IF ~ok(response) THEN Threw("Error", ApiErrorMessage(response)) ELSE JsonOf(response)

\* Faulty variant: request without the status test of lines 822-826.
RequestResultNoOkTest(response) ==
    IF response.status = 204 THEN Returned(ObjValue({})) ELSE JsonOf(response)

\* Lines 822-832: what request() does with the response of its fetch.
RequestResult(response) ==
    IF ~ok(response) THEN Threw("Error", ApiErrorMessage(response))
    ELSE IF response.status = 204 THEN Returned(ObjValue({}))
    ELSE JsonOf(response)

\* Lines 971-975: what attachFile does with the response of its fetch.
AttachFileResult(response) ==
    IF ~ok(response) THEN Threw("Error", ApiErrorMessage(response)) ELSE JsonOf(response)

\* The fetch of request(), lines 811-820.
ApiRequest(config, tok, call) ==
    [kind |-> "api", method |-> call.method, url |-> config.baseUrl \o call.endpoint,
     contentType |-> <<"application/json">>, authorization |-> AuthorizationHeader(tok),
     hasBody |-> call.hasBody,
     body |-> IF call.hasBody THEN JsonStringify(call.body) ELSE {},
     raw |-> <<>>]

-----------------------------------------------------------------------------
(* createItem, lines 860-917 *)

\* The optional fields copied into the create payload, lines 867-870.
CreateOptional == {"description", "locationId", "parentId", "tagIds"}

\* The fields tested by hasExtendedFields, lines 876-887.
ExtendedFields ==
    {"notes", "serialNumber", "modelNumber", "manufacturer", "insured", "archived",
     "lifetimeWarranty", "warrantyExpires", "warrantyDetails", "purchaseTime",
     "purchaseFrom", "purchasePrice"}

\* The optional fields copied into the update payload, lines 896-911.
UpdateOptional == CreateOptional \cup ExtendedFields

\* Faulty variant: the create payload of the earliest client (notes sent on create).
createPayloadWithNotes(item) ==
    {<<"name", Prop(item, "name")[1], Prop(item, "name")[2]>>,
     <<"quantity", Prop(item, "quantity")[1], Prop(item, "quantity")[2]>>}
    \cup {e \in item : e[1] \in CreateOptional \cup {"notes"} /\ e[2] # "undef"}

\* Lines 862-870.
createPayload(item) ==
    {<<"name", Prop(item, "name")[1], Prop(item, "name")[2]>>,
     <<"quantity", Prop(item, "quantity")[1], Prop(item, "quantity")[2]>>}
    \cup {e \in item : e[1] \in CreateOptional /\ e[2] # "undef"}

\* Faulty variant: purchasePrice forgotten in the test.
hasExtendedFieldsNoPrice(item) ==
    \E f \in ExtendedFields \ {"purchasePrice"} : Prop(item, f) # Undefined

\* Faulty variant: a test that also counts the basic optional fields.
hasAnyOptionalField(item) ==
    \E f \in UpdateOptional : Prop(item, f) # Undefined

\* Lines 875-887.
hasExtendedFields(item) ==
    \E f \in ExtendedFields : Prop(item, f) # Undefined

\* created.id, created.name, ...: a property of the value request() returned.
Field(value, k) == IF value.t = "obj" THEN Prop(value.o, k) ELSE Undefined

\* Line 889: the condition of the follow-up update.
needsUpdate(item, created) == hasExtendedFields(item) /\ Truthy(Field(created, "id"))

\* Faulty variant: an update payload that forgets the basic optional fields.
updatePayloadExtendedOnly(item, created) ==
    {<<"id", Field(created, "id")[1], Field(created, "id")[2]>>,
     <<"name", Field(created, "name")[1], Field(created, "name")[2]>>,
     <<"quantity", Field(created, "quantity")[1], Field(created, "quantity")[2]>>}
    \cup {e \in item : e[1] \in ExtendedFields /\ e[2] # "undef"}

\* Lines 890-911.
updatePayload(item, created) ==
    {<<"id", Field(created, "id")[1], Field(created, "id")[2]>>,
     <<"name", Field(created, "name")[1], Field(created, "name")[2]>>,
     <<"quantity", Field(created, "quantity")[1], Field(created, "quantity")[2]>>}
    \cup {e \in item : e[1] \in UpdateOptional /\ e[2] # "undef"}

ItemsEndpoint == <<"/api/v1/items">>

\* Line 872.
createCall(item) == Call(ItemsEndpoint, "POST", TRUE, createPayload(item))

\* Line 913: `/api/v1/items/${created.id}`.
updateCall(item, created) ==
    Call(<<"/api/v1/items/">> \o Field(created, "id")[2], "PUT", TRUE,
         updatePayload(item, created))

\* The caller's items: name and quantity, plus at most MaxSupplied optional fields;
\* the supplied values are all falsy (b = FALSE) or all truthy; the fields left out
\* are passed as undefined, as the add-item tool does (lines 383-402).
FieldValue(f, b) ==
    IF f \in {"insured", "archived", "lifetimeWarranty"} THEN Bool(b)
    ELSE IF f = "purchasePrice" THEN Num(IF b THEN 7 ELSE 0)
    ELSE IF f = "tagIds" THEN Arr(IF b THEN <<"t1">> ELSE <<>>)
    ELSE Str(IF b THEN <<"c">> ELSE <<>>)

RECURSIVE SubsetsUpTo(_, _)
SubsetsUpTo(S, k) ==
    IF k = 0 THEN {{}}
    ELSE LET P == SubsetsUpTo(S, k - 1) IN P \cup {T \cup {f} : T \in P, f \in S}

CallerName == Str(<<"n1">>)
CallerQuantity == Num(5)

MakeItem(S, b) ==
    {<<"name", CallerName[1], CallerName[2]>>,
     <<"quantity", CallerQuantity[1], CallerQuantity[2]>>}
    \cup {<<f, FieldValue(f, b)[1], FieldValue(f, b)[2]>> : f \in S}
    \cup {<<f, "undef", <<>>>> : f \in UpdateOptional \ S}

ItemInputs == {MakeItem(S, b) : S \in SubsetsUpTo(UpdateOptional, MaxSupplied), b \in BOOLEAN}

\* What the service may answer to the create: the record with or without an id,
\* echoing the caller's name and quantity, normalising them, or leaving them out.
CreatedBodies ==
    {JsonStringify({<<"id", id[1], id[2]>>, <<"name", nq[1][1], nq[1][2]>>,
                    <<"quantity", nq[2][1], nq[2][2]>>}) :
        id \in {Undefined, Str(<<>>), Str(<<"i1">>)},
        nq \in {<<CallerName, CallerQuantity>>, <<Str(<<"N1">>), CallerQuantity>>,
                <<Undefined, Undefined>>}}

\* What the service may answer to the update.
UpdatedBodies ==
    {{<<"id", "str", <<"i1">>>>, <<"name", "str", <<"n1">>>>, <<"quantity", "num", <<"5">>>>,
      <<"notes", "str", <<"stored">>>>}}

-----------------------------------------------------------------------------
(* attachFile, lines 919-976 *)

CRLF == "\r\n"

\* String(options.primary), line 947.
StringOf(v) == v[2]

\* One scalar form field, as lines 933-935.
FieldPart(boundary, name, value) ==
    <<"--">> \o boundary
    \o <<CRLF, "Content-Disposition: form-data; name=\"", name, "\"", CRLF, CRLF>>
    \o value \o <<CRLF>>

\* Faulty variant: the primary part guarded by truthiness, as the type part is.
MultipartBodyPrimaryIfTrue(form) ==
    FieldPart(form.boundary, "name", form.fileName)
    \o (IF Truthy(form.type) THEN FieldPart(form.boundary, "type", form.type[2]) ELSE <<>>)
    \o (IF Truthy(form.primary)
        THEN FieldPart(form.boundary, "primary", StringOf(form.primary)) ELSE <<>>)
    \o <<"--">> \o form.boundary
    \o <<CRLF, "Content-Disposition: form-data; name=\"", "file", "\"; filename=\"">>
    \o form.fileName
    \o <<"\"", CRLF, "Content-Type: application/octet-stream", CRLF, CRLF>>
    \o form.file
    \o <<CRLF, "--">> \o form.boundary \o <<"--", CRLF>>

\* Lines 929-960: the multipart body, Buffer.concat(parts).
MultipartBody(form) ==
    FieldPart(form.boundary, "name", form.fileName)
    \o (IF Truthy(form.type) THEN FieldPart(form.boundary, "type", form.type[2]) ELSE <<>>)
    \o (IF form.primary # Undefined
        THEN FieldPart(form.boundary, "primary", StringOf(form.primary)) ELSE <<>>)
    \o <<"--">> \o form.boundary
    \o <<CRLF, "Content-Disposition: form-data; name=\"", "file", "\"; filename=\"">>
    \o form.fileName
    \o <<"\"", CRLF, "Content-Type: application/octet-stream", CRLF, CRLF>>
    \o form.file
    \o <<CRLF, "--">> \o form.boundary \o <<"--", CRLF>>

\* The fetch of attachFile, lines 962-969.
UploadRequest(config, tok, call) ==
    [kind |-> "upload", method |-> "POST", url |-> config.baseUrl \o call.endpoint,
     contentType |-> <<"multipart/form-data; boundary=">> \o call.form.boundary,
     authorization |-> AuthorizationHeader(tok),
     hasBody |-> TRUE, body |-> {}, raw |-> MultipartBody(call.form)]

\* Line 926 and the arguments of attachFile.
attachCall(itemId, fileBuffer, fileName, type, primary, random) ==
    [endpoint |-> <<"/api/v1/items/">> \o itemId \o <<"/attachments">>,
     method |-> "POST", hasBody |-> TRUE, body |-> {}, multipart |-> TRUE,
     form |-> [fileName |-> fileName, type |-> type, primary |-> primary,
               file |-> fileBuffer, boundary |-> <<"----WebKitFormBoundary">> \o random]]

WireRequest(config, tok, call) ==
    IF call.multipart THEN UploadRequest(config, tok, call) ELSE ApiRequest(config, tok, call)

-----------------------------------------------------------------------------
(* The other operations, lines 835-858 and 978-1033 *)

\* encodeURIComponent: unreserved characters pass, the others are percent-encoded.
encodeURIComponent(s) ==
    [i \in 1..Len(s) |-> IF s[i] = " " THEN "%20" ELSE IF s[i] = "&" THEN "%26" ELSE s[i]]

\* Line 837.
searchCall(query) ==
    Call(<<"/api/v1/items?search=">> \o encodeURIComponent(query), "GET", FALSE, {})
\* Line 857.
locationsCall == Call(<<"/api/v1/locations">>, "GET", FALSE, {})
\* Lines 979-982.
deleteAttachmentCall(itemId, attachmentId) ==
    Call(<<"/api/v1/items/">> \o itemId \o <<"/attachments/">> \o attachmentId,
         "DELETE", FALSE, {})
\* Lines 990-994.
updateAttachmentCall(itemId, attachmentId, updates) ==
    Call(<<"/api/v1/items/">> \o itemId \o <<"/attachments/">> \o attachmentId,
         "PUT", TRUE, updates)
\* Line 998.
deleteItemCall(itemId) == Call(<<"/api/v1/items/">> \o itemId, "DELETE", FALSE, {})
\* Line 1008.
createLocationCall(location) == Call(<<"/api/v1/locations">>, "POST", TRUE, location)
\* Faulty variant: the absent fields sent as null instead of being left out.
updateLocationPayloadNulls(locationId, updates) ==
    {<<"id", "str", locationId>>}
    \cup {<<e[1], IF e[2] = "undef" THEN "null" ELSE e[2], e[3]>> :
            e \in {x \in updates : x[1] \in {"name", "description", "parentId"}}}

\* Lines 1019-1028.
updateLocationPayload(locationId, updates) ==
    {<<"id", "str", locationId>>}
    \cup {e \in updates : e[1] \in {"name", "description", "parentId"} /\ e[2] # "undef"}
updateLocationCall(locationId, updates) ==
    Call(<<"/api/v1/locations/">> \o locationId, "PUT", TRUE,
         updateLocationPayload(locationId, updates))
\* Line 1032.
deleteLocationCall(locationId) ==
    Call(<<"/api/v1/locations/">> \o locationId, "DELETE", FALSE, {})

DeleteKinds == {"deleteItem", "deleteAttachment", "deleteLocation"}

\* Faulty variant: searchItems without the `|| []` of line 839.
returnValueNoDefault(kind, value) ==
    IF kind = "searchItems"
    THEN (IF Field(value, "items")[1] = "arr" THEN ArrValue(Field(value, "items")[2])
          ELSE UndefValue)
    ELSE IF kind \in {"deleteItem", "deleteAttachment", "deleteLocation"} THEN UndefValue
    ELSE value

\* What each operation returns from the value of its last request():
\* line 839 (response.items || []), lines 978-983, 997-999, 1031-1033 (void).
returnValue(kind, value) ==
    IF kind = "searchItems"
    THEN (IF Truthy(Field(value, "items")) THEN ArrValue(Field(value, "items")[2])
          ELSE ArrValue(<<>>))
    ELSE IF kind \in DeleteKinds THEN UndefValue
    ELSE value

\* Arguments of the operations.
ItemIds == {<<"i1">>, <<"missing">>}
AttachmentIds == {<<"a1">>}
LocationIds == {<<"l1">>, <<"l2">>}
Queries == {<<"resistor">>, <<"a", " ", "b">>}
FileBuffers == {<<>>, <<"0x00", "0xff">>}
FileNames == {<<"a.jpg">>}
Randoms == {<<"r1">>, <<"r2">>}
OptionalStrings == {Undefined, Str(<<>>), Str(<<"c">>)}
OptionalBooleans == {Undefined, Bool(FALSE), Bool(TRUE)}
LocationInputs ==
    {{<<"name", n[1], n[2]>>, <<"description", d[1], d[2]>>, <<"parentId", q[1], q[2]>>} :
        n \in {Undefined, Str(<<"shelf">>)}, d \in {Undefined, Str(<<>>)},
        q \in {Undefined, Str(<<"l0">>)}}
AttachmentUpdates == {{<<"primary", v[1], v[2]>>} : v \in OptionalBooleans}

\* Bodies the service may send with a 200, by operation.
ItemBody == {<<"id", "str", <<"i1">>>>, <<"name", "str", <<"n1">>>>}
LocationBody == {<<"id", "str", <<"l1">>>>, <<"name", "str", <<"shelf">>>>}
OkBodies(kind, stage) ==
    IF kind = "createItem" THEN
        {ObjValue(b) : b \in (IF stage = 1 THEN CreatedBodies ELSE UpdatedBodies)}
    ELSE IF kind = "searchItems" THEN
        {ObjValue({}), ObjValue({<<"items", "arr", <<>>>>}),
         ObjValue({<<"items", "arr", <<"i1", "i2">>>>})}
    ELSE IF kind = "getLocations" THEN {ArrValue(<<>>), ArrValue(<<"l1">>)}
    ELSE IF kind \in DeleteKinds THEN {ObjValue({})}
    ELSE IF kind \in {"createLocation", "updateLocation"} THEN {ObjValue(LocationBody)}
    ELSE IF kind = "attachFile"
    THEN {ObjValue(ItemBody), ObjValue(ItemBody \cup {<<"attachments", "arr", <<"photo">>>>})}
    ELSE {ObjValue(ItemBody)}

ServerResponses(kind, stage) ==
    ErrorResponses \cup {NoContent, EmptyOk}
    \cup {Response(200, <<"OK">>, TRUE, b) : b \in OkBodies(kind, stage)}

-----------------------------------------------------------------------------
(* State machine *)

IdleOp == [kind |-> "none", pc |-> "idle", stage |-> 0, item |-> {}, req |-> NoCall]

\* Concurrent use: the callers that each call one method of the same client, and
\* the most items a keyword search matches.
NumCallers == 2
MaxMatches == 2
Callers == 1..NumCallers

\* A method call of a caller: its request() calls (tasks) in the order they were
\* made, and how the call ended.
IdleCall ==
    [kind |-> "none", pc |-> "idle", stage |-> 0, item |-> {}, tasks |-> <<>>,
     matches |-> <<>>, outcome |-> NoOutcome]

\* A tool invocation: the tool, its parameters, the file it reads (attach_file), the
\* plugin configuration and environment it finds, and
\* its result: the text of the content it returned, or the error it propagated.
NoFile == [path |-> <<>>, base |-> <<>>, state |-> "none", bytes |-> <<>>]
NoResult == [kind |-> "none", text |-> <<>>, error |-> "", message |-> <<>>]
NoHost ==
    [plugin |-> [baseUrl |-> <<"undef", <<>>>>, username |-> <<"undef", <<>>>>,
                 password |-> <<"undef", <<>>>>],
     env |-> [baseUrl |-> <<"undef", <<>>>>, username |-> <<"undef", <<>>>>,
              password |-> <<"undef", <<>>>>]]
IdleTool ==
    [name |-> "none", pc |-> "idle", params |-> {}, file |-> NoFile, host |-> NoHost,
     result |-> NoResult]

\* Two runs of the plugin that are given the same invocations and the same service
\* answers, each with its own password and its own login tokens. A run: the password
\* getClient found, the client it cached, this.token, whether a login has stored an
\* empty token, the invocation in progress (tool, parameters, the client method's
\* frame, the logins it has made), the message of the error the client raised, and
\* the result of execute. The answers the service has given so far in the invocation
\* are kept for the other run: the logins without their token, and the responses.
FreshRun ==
    [password |-> Undefined, client |-> [made |-> FALSE, config |-> NoConfig],
     token |-> Null, blank |-> FALSE, pc |-> "idle", name |-> "none", params |-> {},
     frame |-> IdleOp, logins |-> 0, raised |-> <<>>, result |-> NoResult]
NoRuns == [of |-> [r \in 1..2 |-> FreshRun], logins |-> <<>>, answers |-> <<>>]

Init ==
    /\ client = [made |-> FALSE, config |-> NoConfig]
    /\ ctor = [called |-> FALSE, baseUrl |-> <<>>, threw |-> FALSE, message |-> <<>>]
    /\ token = Null
    /\ op = IdleOp
    /\ trace = <<>>
    /\ resps = <<>>
    /\ outcome = NoOutcome
    /\ loginHits = 0
    /\ first = "none"
    /\ procs = [p \in Callers |-> IdleCall]
    /\ issued = [all |-> {}, last |-> Null]
    /\ tool = IdleTool
    /\ runs = NoRuns

\* fetch(...): the request leaves the client.
Sent(before, r) ==
    /\ trace' = Append(before, r)
    /\ first' = IF first = "none" THEN r.kind ELSE first

\* The operation returns or throws.
Finish(o) ==
    /\ outcome' = o
    /\ op' = [op EXCEPT !.pc = "done"]

\* A call of request() or of attachFile, up to its first fetch: with a cached token
\* (line 780) the request itself is sent, otherwise the login request (line 782).
InvokeOn(config, frame, before) ==
    IF TokenCached(token)
    THEN /\ Sent(before, WireRequest(config, token, frame.req))
         /\ op' = [frame EXCEPT !.pc = "respWait"]
    ELSE /\ Sent(before, LoginRequest(config))
         /\ op' = [frame EXCEPT !.pc = "loginWait"]

Invoke(frame, before) == InvokeOn(client.config, frame, before)

\* A public method is called on the client.
Begin(kind, item, call) ==
    /\ client.made
    /\ op.pc = "idle"
    /\ Invoke([kind |-> kind, pc |-> "idle", stage |-> 1, item |-> item, req |-> call], <<>>)
    /\ resps' = <<>>
    /\ outcome' = NoOutcome
    /\ UNCHANGED <<client, ctor, token, loginHits>>
    /\ UNCHANGED <<concVars, tool, runs>>

searchItems == \E q \in Queries : Begin("searchItems", {}, searchCall(q))
getLocations == Begin("getLocations", {}, locationsCall)
createItem == \E item \in ItemInputs : Begin("createItem", item, createCall(item))
attachFile ==
    \E id \in ItemIds, buf \in FileBuffers, name \in FileNames, ty \in OptionalStrings,
       pr \in OptionalBooleans, rnd \in Randoms :
        Begin("attachFile", {}, attachCall(id, buf, name, ty, pr, rnd))
deleteAttachment ==
    \E id \in ItemIds, a \in AttachmentIds :
        Begin("deleteAttachment", {}, deleteAttachmentCall(id, a))
updateAttachment ==
    \E id \in ItemIds, a \in AttachmentIds, u \in AttachmentUpdates :
        Begin("updateAttachment", {}, updateAttachmentCall(id, a, u))
deleteItem == \E id \in ItemIds : Begin("deleteItem", {}, deleteItemCall(id))
createLocation == \E l \in LocationInputs : Begin("createLocation", l, createLocationCall(l))
updateLocation ==
    \E id \in LocationIds, u \in LocationInputs :
        Begin("updateLocation", u, updateLocationCall(id, u))
deleteLocation == \E id \in LocationIds : Begin("deleteLocation", {}, deleteLocationCall(id))

\* The login exchange completes, lines 794-802, and the suspended caller goes on
\* to its own fetch (line 813 or 962).
LoginExchange(responses) ==
    /\ op.pc = "loginWait"
    /\ \E response \in responses :
        LET r == LoginResult(response) IN
        /\ resps' = Append(resps, response)
        /\ IF r.threw
           THEN /\ Finish(Threw(r.error, r.message))
                /\ UNCHANGED <<token, loginHits, trace, first>>
           ELSE /\ token' = r.token
                /\ loginHits' = IF Truthy(r.token) THEN loginHits + 1 ELSE loginHits
                /\ Sent(trace, WireRequest(client.config, r.token, op.req))
                /\ op' = [op EXCEPT !.pc = "respWait"]
                /\ outcome' = outcome
    /\ UNCHANGED <<client, ctor>>
    /\ UNCHANGED <<concVars, tool, runs>>

LoginResponse == LoginExchange(LoginResponses)

\* The fetch of request() completes, lines 822-832, and the method that awaited it
\* continues: createItem to its follow-up update, the others to their return.
RequestResponse ==
    /\ op.pc = "respWait"
    /\ ~op.req.multipart
    /\ \E response \in ServerResponses(op.kind, op.stage) :
        LET r == RequestResult(response) IN
        /\ resps' = Append(resps, response)
        /\ IF r.kind = "threw"
           THEN /\ Finish(r)
                /\ UNCHANGED <<trace, first>>
           ELSE IF op.kind = "createItem" /\ op.stage = 1 /\ needsUpdate(op.item, r.value)
           THEN /\ Invoke([op EXCEPT !.stage = 2, !.req = updateCall(op.item, r.value)], trace)
                /\ outcome' = outcome
           ELSE /\ Finish(Returned(returnValue(op.kind, r.value)))
                /\ UNCHANGED <<trace, first>>
    /\ UNCHANGED <<client, ctor, token, loginHits>>
    /\ UNCHANGED <<concVars, tool, runs>>

\* The fetch of attachFile completes, lines 971-975.
AttachFileResponse ==
    /\ op.pc = "respWait"
    /\ op.req.multipart
    /\ \E response \in ServerResponses(op.kind, op.stage) :
        /\ resps' = Append(resps, response)
        /\ Finish(AttachFileResult(response))
    /\ UNCHANGED <<client, ctor, token, loginHits, trace, first>>
    /\ UNCHANGED <<concVars, tool, runs>>

\* The awaiting caller has taken the result or the error of the finished method:
\* nothing of the call is left but this.token.
Settle ==
    /\ op.pc = "done"
    /\ op' = IdleOp
    /\ trace' = <<>>
    /\ resps' = <<>>
    /\ outcome' = NoOutcome
    /\ UNCHANGED <<client, ctor, token, loginHits, first>>
    /\ UNCHANGED <<concVars, tool, runs>>

\* The plugin constructs its client with the default base URL or a configured one.
ClientUrls == {DefaultBaseUrl, <<"f", "t", "p">> \o <<":", "/", "/">> \o <<"localhost">>}
Construct ==
    \E url \in ClientUrls :
        Constructor([baseUrl |-> url, username |-> Username, password |-> Password])

Next ==
    \/ Construct
    \/ searchItems
    \/ getLocations
    \/ createItem
    \/ attachFile
    \/ deleteAttachment
    \/ updateAttachment
    \/ deleteItem
    \/ createLocation
    \/ updateLocation
    \/ deleteLocation
    \/ LoginResponse
    \/ RequestResponse
    \/ AttachFileResponse
    \/ Settle

Spec == Init /\ [][Next]_vars

\* Token strings of every shape the prefix pattern distinguishes: no prefix, the
\* prefix in any case, followed by one or several blanks or a tab, by nothing, or
\* repeated; the word inside the string; the empty string.
Bearer(rest) == <<"B", "e", "a", "r", "e", "r">> \o rest
AnyLoginTokens ==
    {<<"t", "1">>, <<>>,
     Bearer(<<" ", "t", "2">>), Bearer(<<" ">>), Bearer(<<>>), Bearer(<<"t", "3">>),
     Bearer(<<" ", " ", "t", "4">>), Bearer(<<"\t", "t", "5">>),
     Bearer(<<" ">> \o Bearer(<<" ", "t", "6">>)),
     <<"b", "e", "a", "r", "e", "r", " ", "t", "7">>,
     <<"B", "E", "A", "R", "E", "R", " ", "t", "8">>,
     <<" ">> \o Bearer(<<" ", "t", "9">>),
     <<"t">> \o Bearer(<<" ", "t">>)}
AnyLoginResponses ==
    ErrorResponses
    \cup {OkJson({<<"token", "str", t>>, <<"expiresAt", "str", <<"2030">>>>}) : t \in AnyLoginTokens}

LoginAnyToken == LoginExchange(AnyLoginResponses)

\* The login exchange over every token shape, with operations that send one request.
NextToken ==
    \/ Construct
    \/ getLocations
    \/ deleteItem
    \/ updateAttachment
    \/ LoginAnyToken
    \/ RequestResponse
    \/ Settle

SpecToken == Init /\ [][NextToken]_vars

-----------------------------------------------------------------------------
(* Concurrent use of one client, and searchItemsExtended (lines 842-854) *)

\* Line 849: `/api/v1/items/${item.id}`.
detailCall(id) == Call(<<"/api/v1/items/">> \o id, "GET", FALSE, {})

\* The items of a search response: an abbreviated record is written as its id, a
\* record without id as "anon".
Anonymous == "anon"
itemId(item) == IF item = Anonymous THEN Undefined ELSE Str(<<item>>)

\* A call of request(): ensureToken runs up to its first await when the call is
\* made (line 810): with a cached token the call goes on to its fetch with that
\* token, otherwise the login fetch is sent.  tok is the local const of line 810.
NewTask(call, tok) ==
    IF TokenCached(tok)
    THEN [pc |-> "respWait", call |-> call, tok |-> tok,
          sent |-> <<WireRequest(client.config, tok, call)>>, result |-> NoOutcome]
    ELSE [pc |-> "loginWait", call |-> call, tok |-> Null,
          sent |-> <<LoginRequest(client.config)>>, result |-> NoOutcome]

\* A caller calls a method while others may be suspended in theirs.
Start(p, kind, item, call) ==
    /\ client.made
    /\ procs[p].pc = "idle"
    /\ procs' = [procs EXCEPT ![p] =
                    [kind |-> kind, pc |-> "run", stage |-> 1, item |-> item,
                     tasks |-> <<NewTask(call, token)>>, matches |-> <<>>,
                     outcome |-> NoOutcome]]
    /\ UNCHANGED <<client, ctor, token, issued>>
    /\ UNCHANGED <<seqVars, tool, runs>>

ConcItems == {MakeItem({}, TRUE), MakeItem({"notes"}, TRUE)}

StartGetLocations == \E p \in Callers : Start(p, "getLocations", {}, locationsCall)
StartCreateItem ==
    \E p \in Callers, item \in ConcItems : Start(p, "createItem", item, createCall(item))
\* Line 844: searchItemsExtended begins with searchItems(query).
searchItemsExtended == Start(1, "searchItemsExtended", {}, searchCall(<<"resistor">>))

\* Responses in concurrent use.
ConcLoginResponses ==
    {Response(401, <<"Unauthorized">>, FALSE, UndefValue)}
    \cup {OkJson({<<"token", "str", t>>}) : t \in {<<"t", "1">>, <<"t", "2">>, <<>>}}
RECURSIVE MatchLists(_)
MatchLists(n) ==
    IF n = 0 THEN {<<>>}
    ELSE MatchLists(n - 1)
         \cup {Append(l, IF x = "id" THEN "i" \o ToString(n) ELSE Anonymous) :
                 l \in {m \in MatchLists(n - 1) : Len(m) = n - 1}, x \in {"id", "anon"}}
ConcResponses(kind, stage) ==
    {Response(500, <<"Internal Server Error">>, FALSE, UndefValue)}
    \cup
    IF kind = "searchItemsExtended" /\ stage = 1
    THEN {OkJson({<<"items", "arr", l>>}) : l \in MatchLists(MaxMatches)}
    ELSE IF kind = "searchItemsExtended"
    THEN {OkJson({<<"name", "str", <<"full">>>>})}
    ELSE IF kind = "createItem" /\ stage = 1
    THEN {OkJson({<<"id", "str", <<"i1">>>>, <<"name", "str", <<"n1">>>>}),
          OkJson({<<"name", "str", <<"n1">>>>})}
    ELSE IF kind = "createItem"
    THEN {OkJson(b) : b \in UpdatedBodies}
    ELSE {Response(200, <<"OK">>, TRUE, ArrValue(<<"l1">>))}

\* Promise.all of line 847 over the tasks of the fan-out: the list when all have
\* resolved (a record without id stands for itself), in the order of the matches.
Resolved(call) == \A i \in 1..Len(call.tasks) : call.tasks[i].result.kind = "returned"
FullItems(call) ==
    LET withId == {k \in 1..Len(call.matches) : Truthy(itemId(call.matches[k]))}
    IN [k \in 1..Len(call.matches) |->
          IF k \in withId THEN <<"full", call.matches[k]>> ELSE <<"brief", call.matches[k]>>]

\* The method continues after one of its request() calls resolved with value v;
\* tok is this.token at that moment.
Continue(call, v, tok) ==
    IF call.kind = "createItem" /\ call.stage = 1 /\ needsUpdate(call.item, v)
    THEN [call EXCEPT !.stage = 2,
                      !.tasks = Append(@, NewTask(updateCall(call.item, v), tok))]
    ELSE IF call.kind = "searchItemsExtended" /\ call.stage = 1
    THEN LET results == returnValue("searchItems", v).s
             ids == SelectSeq(results, LAMBDA item : Truthy(itemId(item)))
             fan == [k \in 1..Len(ids) |-> NewTask(detailCall(<<ids[k]>>), tok)]
             next == [call EXCEPT !.stage = 2, !.matches = results, !.tasks = fan]
         IN IF Len(ids) = 0
            THEN [next EXCEPT !.pc = "done",
                              !.outcome = Returned(ArrValue(FullItems(next)))]
            ELSE next
    ELSE IF call.kind = "searchItemsExtended"
    THEN (IF Resolved(call) /\ call.pc = "run"
          THEN [call EXCEPT !.pc = "done", !.outcome = Returned(ArrValue(FullItems(call)))]
          ELSE call)
    ELSE [call EXCEPT !.pc = "done", !.outcome = Returned(returnValue(call.kind, v))]

\* Faulty variant: the rejection of a request() call is swallowed.
RejectSwallowed(call, error) == call

\* One of its request() calls rejected: the method throws, unless it has ended.
Reject(call, error) ==
    IF call.pc = "run" THEN [call EXCEPT !.pc = "done", !.outcome = error] ELSE call

\* The login exchange of one request() call completes, lines 794-802 and 811-820.
TaskLogin ==
    \E p \in Callers : \E i \in 1..Len(procs[p].tasks) :
        /\ procs[p].tasks[i].pc = "loginWait"
        /\ \E response \in ConcLoginResponses :
            LET r == LoginResult(response)
                task == procs[p].tasks[i]
            IN IF r.threw
               THEN /\ procs' = [procs EXCEPT ![p] =
                        Reject([@ EXCEPT !.tasks[i] =
                                   [task EXCEPT !.pc = "done",
                                                !.result = Threw(r.error, r.message)]],
                               Threw(r.error, r.message))]
                    /\ UNCHANGED <<token, issued>>
               ELSE /\ token' = r.token
                    /\ issued' = [all |-> issued.all \cup {r.token}, last |-> r.token]
                    /\ procs' = [procs EXCEPT ![p].tasks[i] =
                        [task EXCEPT !.pc = "respWait", !.tok = r.token,
                                     !.sent = Append(@, WireRequest(client.config, r.token,
                                                                    task.call))]]
        /\ UNCHANGED <<client, ctor>>
        /\ UNCHANGED <<seqVars, tool, runs>>

\* The fetch of one request() call completes, lines 822-832.  (The response to a
\* detail request whose Promise.all has already rejected reaches no one and changes
\* nothing: it is left out.)
TaskResponse ==
    \E p \in Callers : \E i \in 1..Len(procs[p].tasks) :
        /\ procs[p].tasks[i].pc = "respWait"
        /\ procs[p].pc = "run"
        /\ \E response \in ConcResponses(procs[p].kind, procs[p].stage) :
            LET r == RequestResult(response)
                ended == [procs[p] EXCEPT !.tasks[i] =
                             [@ EXCEPT !.pc = "done", !.result = r]]
            IN procs' = [procs EXCEPT ![p] =
                            IF r.kind = "threw" THEN Reject(ended, r)
                            ELSE Continue(ended, r.value, token)]
        /\ UNCHANGED <<client, ctor, token, issued>>
        /\ UNCHANGED <<seqVars, tool, runs>>

\* Callers of getLocations and createItem, concurrently.
NextConc ==
    \/ Construct
    \/ StartGetLocations
    \/ StartCreateItem
    \/ TaskLogin
    \/ TaskResponse

SpecConc == Init /\ [][NextConc]_vars

\* One searchItemsExtended, while the other callers may call getLocations.
NextFan ==
    \/ Construct
    \/ searchItemsExtended
    \/ StartGetLocations
    \/ TaskLogin
    \/ TaskResponse

SpecFan == Init /\ [][NextFan]_vars

-----------------------------------------------------------------------------
(* The tools, lines 206-712 *)

\* a || b
Or(a, b) == IF Truthy(a) THEN a ELSE b

ConfigError ==
    <<"HomeBox plugin requires username and password (set in openclaw.json under plugins.entries.homebox.config or HOMEBOX_USERNAME/HOMEBOX_PASSWORD environment variables)">>

\* api.pluginConfig and process.env as one invocation finds them.
HostConfig(pluginCfg, env) == [plugin |-> pluginCfg, env |-> env]
Settings(baseUrl, username, password) ==
    [baseUrl |-> baseUrl, username |-> username, password |-> password]
NoSettings == Settings(Undefined, Undefined, Undefined)
OtherBaseUrl == HttpsPrefix \o <<"box.example">>
HostConfigs ==
    {HostConfig(Settings(Undefined, Str(Username), Str(Password)), NoSettings),
     HostConfig(NoSettings, Settings(Str(DefaultBaseUrl), Str(Username), Str(Password))),
     HostConfig(Settings(Undefined, Str(Username), Str(<<>>)), NoSettings),
     HostConfig(Settings(Undefined, Undefined, Str(Password)), NoSettings),
     HostConfig(Settings(Str(<<"f", "t", "p", ":", "/", "/", "localhost">>), Str(Username),
                         Str(Password)), NoSettings),
     HostConfig(Settings(Str(OtherBaseUrl), Str(Username), Undefined),
                Settings(Str(DefaultBaseUrl), Str(<<"v">>), Str(<<"s", "3", "c">>))),
     HostConfig(Settings(Undefined, Str(<<>>), Str(Password)),
                Settings(Str(OtherBaseUrl), Str(<<"v">>), Undefined)),
     HostConfig(Settings(Undefined, Str(Username), Undefined),
                Settings(Undefined, Undefined, Str(<<>>)))}

\* Faulty variant: no test of the cached client, line 211.
getClientNoCache(cached, host) ==
    LET baseUrl == Or(Or(host.plugin.baseUrl, host.env.baseUrl), Str(DefaultBaseUrl))
        username == Or(host.plugin.username, host.env.username)
        password == Or(host.plugin.password, host.env.password)
    IN IF ~Truthy(username) \/ ~Truthy(password)
       THEN [threw |-> TRUE, message |-> ConfigError, client |-> cached]
       ELSE IF ~SchemeAccepted(baseUrl[2])
       THEN [threw |-> TRUE, message |-> SchemeError, client |-> cached]
       ELSE [threw |-> FALSE, message |-> <<>>,
             client |-> [made |-> TRUE,
                         config |-> [baseUrl |-> baseUrl[2], username |-> username[2],
                                     password |-> password[2]]]]

\* Faulty variant: the environment takes precedence over the plugin configuration.
getClientEnvFirst(cached, host) ==
    IF cached.made THEN [threw |-> FALSE, message |-> <<>>, client |-> cached]
    ELSE LET baseUrl == Or(Or(host.env.baseUrl, host.plugin.baseUrl), Str(DefaultBaseUrl))
             username == Or(host.env.username, host.plugin.username)
             password == Or(host.env.password, host.plugin.password)
         IN IF ~Truthy(username) \/ ~Truthy(password)
            THEN [threw |-> TRUE, message |-> ConfigError, client |-> cached]
            ELSE IF ~SchemeAccepted(baseUrl[2])
            THEN [threw |-> TRUE, message |-> SchemeError, client |-> cached]
            ELSE [threw |-> FALSE, message |-> <<>>,
                  client |-> [made |-> TRUE,
                              config |-> [baseUrl |-> baseUrl[2], username |-> username[2],
                                          password |-> password[2]]]]

\* getClient, lines 210-237: the cached client, a new one, or the error thrown.
getClientOf(cached, host) ==
    IF cached.made THEN [threw |-> FALSE, message |-> <<>>, client |-> cached]
    ELSE LET baseUrl == Or(Or(host.plugin.baseUrl, host.env.baseUrl), Str(DefaultBaseUrl))
             username == Or(host.plugin.username, host.env.username)
             password == Or(host.plugin.password, host.env.password)
         IN IF ~Truthy(username) \/ ~Truthy(password)
            THEN [threw |-> TRUE, message |-> ConfigError, client |-> cached]
            ELSE IF ~SchemeAccepted(baseUrl[2])
            THEN [threw |-> TRUE, message |-> SchemeError, client |-> cached]
            ELSE [threw |-> FALSE, message |-> <<>>,
                  client |-> [made |-> TRUE,
                              config |-> [baseUrl |-> baseUrl[2], username |-> username[2],
                                          password |-> password[2]]]]

getClient(host) == getClientOf(client, host)

\* The marks that begin the texts (U+2713, U+2717) and the bullet (U+2022).
SuccessMark == "<U+2713>"
FailureMark == "<U+2717>"
Bullet == "<U+2022>"

\* The tools whose execute wraps its body in try/catch (lines 446, 509, 552, 599,
\* 650, 689) and those whose execute does not (lines 283, 381).
CatchingTools ==
    {"homebox_attach_file", "homebox_delete_item", "homebox_remove_attachment",
     "homebox_create_location", "homebox_update_location", "homebox_delete_location"}
PropagatingTools == {"homebox_get_locations", "homebox_add_item"}
Tools == PropagatingTools \cup CatchingTools

\* The text after the failure mark, lines 486, 525, 568, 615, 666, 705.
FailedTo(name) ==
    CASE name = "homebox_attach_file" -> " Failed to attach file: "
      [] name = "homebox_delete_item" -> " Failed to delete item: "
      [] name = "homebox_remove_attachment" -> " Failed to remove attachment: "
      [] name = "homebox_create_location" -> " Failed to create location: "
      [] name = "homebox_update_location" -> " Failed to update location: "
      [] name = "homebox_delete_location" -> " Failed to delete location: "
      [] OTHER -> ""

TextResult(text) == [kind |-> "text", text |-> text, error |-> "", message |-> <<>>]
Propagated(error, message) ==
    [kind |-> "threw", text |-> <<>>, error |-> error, message |-> message]

\* Faulty variant: a catch block that rethrows.
OnErrorRethrow(name, error, message) == Propagated(error, message)

\* An error reaches the end of execute: the catch block renders it, or it propagates.
OnError(name, error, message) ==
    IF name \in CatchingTools
    THEN TextResult(<<FailureMark, FailedTo(name)>> \o message)
    ELSE Propagated(error, message)

\* `${v}` in a template literal.
Template(v) ==
    IF v[1] = "undef" THEN <<"undefined">> ELSE IF v[1] = "null" THEN <<"null">> ELSE v[2]

\* The success text of each tool, lines 287-290, 404, 475-476, 516, 559, 606, 657, 696;
\* the list of get_locations is rendered one entry per location.
Summary(name, params, value) ==
    CASE name = "homebox_get_locations" ->
            IF value.s = <<>> THEN <<"No locations found.">>
            ELSE <<"Available locations:\n">>
                 \o [k \in 1..(2 * Len(value.s)) |->
                       IF k % 2 = 1 THEN Bullet ELSE value.s[k \div 2]]
      [] name = "homebox_add_item" ->
            <<SuccessMark, " Added to HomeBox:\n", Bullet, " Name: ">>
            \o Template(Field(value, "name"))
            \o <<"\n", Bullet, " Quantity: ">> \o Template(Field(value, "quantity"))
            \o <<"\n", Bullet, " Location: ">> \o Or(Field(value, "location"), Str(<<"Unknown">>))[2]
      [] name = "homebox_attach_file" ->
            LET attachments == Field(value, "attachments")
                type == IF attachments[1] = "arr" /\ attachments[2] # <<>>
                        THEN Str(<<attachments[2][Len(attachments[2])]>>) ELSE Undefined
            IN <<SuccessMark, " Attached to ">> \o Template(Field(value, "name"))
               \o <<":\n", Bullet, " File: ">> \o Prop(params, "fileName")[2]
               \o <<"\n", Bullet, " Type: ">> \o Or(type, Str(<<"file">>))[2]
               \o (IF Truthy(Prop(params, "primary"))
                   THEN <<"\n", Bullet, " Set as primary image">> ELSE <<>>)
      [] name = "homebox_delete_item" -> <<SuccessMark, " Item deleted successfully">>
      [] name = "homebox_remove_attachment" -> <<SuccessMark, " Attachment removed">>
      [] name = "homebox_create_location" ->
            <<SuccessMark, " Created location:\n", Bullet, " Name: ">>
            \o Template(Field(value, "name"))
            \o <<"\n", Bullet, " ID: ">> \o Template(Field(value, "id"))
            \o (IF Truthy(Field(value, "description"))
                THEN <<"\n", Bullet, " Description: ">> \o Field(value, "description")[2]
                ELSE <<>>)
      [] name = "homebox_update_location" ->
            <<SuccessMark, " Updated location:\n", Bullet, " Name: ">>
            \o Template(Field(value, "name"))
            \o (IF Truthy(Field(value, "description"))
                THEN <<"\n", Bullet, " Description: ">> \o Field(value, "description")[2]
                ELSE <<>>)
      [] name = "homebox_delete_location" -> <<SuccessMark, " Location deleted successfully">>
      [] OTHER -> <<>>

\* execute after its client call: the rendered text; get_locations on a value that is
\* not a list (the {} of a 204) throws at locations.map, line 290.
OnValue(name, params, value) ==
    IF name = "homebox_get_locations" /\ value.t # "arr"
    THEN OnError(name, "TypeError", <<"locations.map is not a function">>)
    ELSE TextResult(Summary(name, params, value))

\* The client method each tool calls, lines 285, 383, 470, 511, 554, 601, 652, 691,
\* with the argument the method keeps and its first request.
ClientCall(name, params, file) ==
    CASE name = "homebox_get_locations" ->
            [kind |-> "getLocations", item |-> {}, call |-> locationsCall]
      [] name = "homebox_add_item" ->
            [kind |-> "createItem", item |-> params, call |-> createCall(params)]
      [] name = "homebox_attach_file" ->
            [kind |-> "attachFile", item |-> {},
             call |-> attachCall(Prop(params, "itemId")[2], file.bytes,
                                 Prop(params, "fileName")[2], Prop(params, "type"),
                                 Prop(params, "primary"), Prop(params, "random")[2])]
      [] name = "homebox_delete_item" ->
            [kind |-> "deleteItem", item |-> {},
             call |-> deleteItemCall(Prop(params, "itemId")[2])]
      [] name = "homebox_remove_attachment" ->
            [kind |-> "deleteAttachment", item |-> {},
             call |-> deleteAttachmentCall(Prop(params, "itemId")[2],
                                           Prop(params, "attachmentId")[2])]
      [] name = "homebox_create_location" ->
            [kind |-> "createLocation", item |-> params,
             call |-> createLocationCall(params \ {e \in params : e[1] = "locationId"})]
      [] name = "homebox_update_location" ->
            [kind |-> "updateLocation", item |-> params,
             call |-> updateLocationCall(Prop(params, "locationId")[2], params)]
      [] OTHER ->
            [kind |-> "deleteLocation", item |-> {},
             call |-> deleteLocationCall(Prop(params, "locationId")[2])]

\* The files attach_file is pointed at: missing, unreadable (readFileSync throws),
\* or read.
Files ==
    {[path |-> <<"/tmp/", "a.jpg">>, base |-> <<"a.jpg">>, state |-> st, bytes |-> b] :
        st \in {"missing", "unreadable"}, b \in {<<>>}}
    \cup {[path |-> <<"/tmp/", "a.jpg">>, base |-> <<"a.jpg">>, state |-> "read",
           bytes |-> <<"0x00", "0xff">>]}
ReadError == <<"EACCES: permission denied, open '">>

\* Faulty variant: no existence check.
existsSyncAlways(file) == TRUE

\* fs.existsSync(resolvedPath), line 455.
existsSync(file) == file.state # "missing"

\* The parameters the host passes to each tool; attach_file's fileName is
\* params.fileName || path.basename(filePath), line 449, and random is the boundary
\* suffix drawn at line 929.
ToolItems == {MakeItem({}, TRUE), MakeItem({"description"}, FALSE), MakeItem({"notes"}, TRUE)}
ToolParams(name, file) ==
    CASE name = "homebox_get_locations" -> {{}}
      [] name = "homebox_add_item" -> ToolItems
      [] name = "homebox_attach_file" ->
            {{<<"itemId", "str", <<"i1">>>>, <<"type", ty[1], ty[2]>>,
              <<"primary", pr[1], pr[2]>>, <<"random", "str", <<"r1">>>>,
              <<"fileName", "str", Or(fn, Str(file.base))[2]>>} :
                ty \in {Undefined, Str(<<"photo">>)}, pr \in {Undefined, Bool(TRUE)},
                fn \in {Undefined, Str(<<"receipt.jpg">>)}}
      [] name = "homebox_delete_item" -> {{<<"itemId", "str", id>>} : id \in ItemIds}
      [] name = "homebox_remove_attachment" ->
            {{<<"itemId", "str", <<"i1">>>>, <<"attachmentId", "str", a>>} : a \in AttachmentIds}
      [] name = "homebox_create_location" -> LocationInputs
      [] name = "homebox_update_location" ->
            {l \cup {<<"locationId", "str", <<"l1">>>>} : l \in LocationInputs}
      [] OTHER -> {{<<"locationId", "str", id>>} : id \in LocationIds}

\* A tool is invoked: execute runs up to its first await, or to its end when it
\* returns or throws before any request.
Execute(name, params, file, host) ==
    LET got == getClient(host)
        c == ClientCall(name, params, file)
        ended(result) ==
            /\ tool' = [name |-> name, pc |-> "done", params |-> params, file |-> file,
                        host |-> host, result |-> result]
            /\ UNCHANGED <<op, trace, first>>
    IN
    /\ tool.pc = "idle" /\ op.pc = "idle"
    /\ client' = got.client
    /\ ctor' = IF client.made THEN ctor
               ELSE [called |-> ~(got.threw /\ got.message = ConfigError),
                     baseUrl |-> IF got.threw THEN <<>> ELSE got.client.config.baseUrl,
                     threw |-> got.threw /\ got.message = SchemeError,
                     message |-> IF got.message = SchemeError THEN SchemeError ELSE <<>>]
    /\ resps' = <<>>
    /\ outcome' = NoOutcome
    /\ IF got.threw THEN ended(OnError(name, "Error", got.message))
       ELSE IF name = "homebox_attach_file" /\ ~existsSync(file)
       THEN ended(TextResult(<<FailureMark, " File not found: ">> \o file.path))
       ELSE IF name = "homebox_attach_file" /\ file.state = "unreadable"
       THEN ended(OnError(name, "Error", ReadError \o file.path \o <<"'">>))
       ELSE /\ InvokeOn(got.client.config,
                        [kind |-> c.kind, pc |-> "idle", stage |-> 1, item |-> c.item,
                         req |-> c.call], <<>>)
            /\ tool' = [name |-> name, pc |-> "client", params |-> params, file |-> file,
                        host |-> host, result |-> NoResult]
    /\ UNCHANGED <<token, loginHits>>
    /\ UNCHANGED <<concVars, runs>>

homebox_get_locations ==
    \E host \in HostConfigs : Execute("homebox_get_locations", {}, NoFile, host)
homebox_add_item ==
    \E host \in HostConfigs, params \in ToolItems :
        Execute("homebox_add_item", params, NoFile, host)
homebox_attach_file ==
    \E host \in HostConfigs, file \in Files :
        \E params \in ToolParams("homebox_attach_file", file) :
            Execute("homebox_attach_file", params, file, host)
homebox_delete_item ==
    \E host \in HostConfigs, params \in ToolParams("homebox_delete_item", NoFile) :
        Execute("homebox_delete_item", params, NoFile, host)
homebox_remove_attachment ==
    \E host \in HostConfigs, params \in ToolParams("homebox_remove_attachment", NoFile) :
        Execute("homebox_remove_attachment", params, NoFile, host)
homebox_create_location ==
    \E host \in HostConfigs, params \in ToolParams("homebox_create_location", NoFile) :
        Execute("homebox_create_location", params, NoFile, host)
homebox_update_location ==
    \E host \in HostConfigs, params \in ToolParams("homebox_update_location", NoFile) :
        Execute("homebox_update_location", params, NoFile, host)
homebox_delete_location ==
    \E host \in HostConfigs, params \in ToolParams("homebox_delete_location", NoFile) :
        Execute("homebox_delete_location", params, NoFile, host)

\* The client method has returned or thrown: execute renders the result, catches the
\* error, or lets it propagate.
ToolReturn ==
    /\ tool.pc = "client" /\ op.pc = "done"
    /\ tool' = [tool EXCEPT
                  !.pc = "done",
                  !.result = IF outcome.kind = "threw"
                             THEN OnError(tool.name, outcome.error, outcome.message)
                             ELSE OnValue(tool.name, tool.params, outcome.value)]
    /\ UNCHANGED <<client, ctor, token, op, trace, resps, outcome, loginHits, first>>
    /\ UNCHANGED <<concVars, runs>>

\* The host has taken the result: nothing is left of the invocation but the client
\* that getClient cached and its token.
HostTakes ==
    /\ tool.pc = "done"
    /\ tool' = IdleTool
    /\ op' = IdleOp
    /\ trace' = <<>>
    /\ resps' = <<>>
    /\ outcome' = NoOutcome
    /\ UNCHANGED <<client, ctor, token, loginHits, first>>
    /\ UNCHANGED <<concVars, runs>>

NextTools ==
    \/ homebox_get_locations
    \/ homebox_add_item
    \/ homebox_attach_file
    \/ homebox_delete_item
    \/ homebox_remove_attachment
    \/ homebox_create_location
    \/ homebox_update_location
    \/ homebox_delete_location
    \/ LoginResponse
    \/ RequestResponse
    \/ AttachFileResponse
    \/ ToolReturn
    \/ HostTakes

SpecTools == Init /\ [][NextTools]_vars

\* The tools when the service answers every request and the host awaits the result.
SpecToolsAnswered ==
    /\ SpecTools
    /\ WF_vars(LoginResponse) /\ WF_vars(RequestResponse) /\ WF_vars(AttachFileResponse)
    /\ WF_vars(ToolReturn)

-----------------------------------------------------------------------------
(* Two runs side by side: same invocations, same answers, different secrets *)

\* The passwords of the two runs; the empty one is what a configuration with
\* password: "" holds.
Passwords ==
    {<<Str(Password), Str(<<"s", "3", "c">>)>>, <<Str(Password), Str(<<>>)>>}

\* The token strings a login may return to a run.
PairTokens == {<<>>, <<"t", "1">>, <<"t", "2">>, Bearer(<<" ">>)}

\* The login answers without their token: the failures, and the 200 that carries
\* the run's token.
TokenAnswer == OkJson({})
PublicLoginAnswers == ErrorResponses \cup {TokenAnswer}
WithToken(answer, t) ==
    IF answer = TokenAnswer
    THEN OkJson({<<"token", "str", t>>, <<"expiresAt", "str", <<"2030">>>>})
    ELSE answer

\* The file attach_file reads in both runs.
PairFile ==
    [path |-> <<"/tmp/", "a.jpg">>, base |-> <<"a.jpg">>, state |-> "read",
     bytes |-> <<"0x00", "0xff">>]
PairParams(name) ==
    IF name = "homebox_attach_file"
    THEN {p \in ToolParams(name, PairFile) :
            Prop(p, "type") = Undefined /\ Prop(p, "fileName") = Str(PairFile.base)}
    ELSE IF name = "homebox_add_item" THEN {MakeItem({}, TRUE), MakeItem({"notes"}, TRUE)}
    ELSE IF name = "homebox_create_location" \/ name = "homebox_update_location"
    THEN {p \in ToolParams(name, NoFile) : Prop(p, "description") = Undefined}
    ELSE ToolParams(name, NoFile)

\* ensureToken at the head of request() or attachFile, line 780: the fetch follows at
\* once with a cached token, the login otherwise.
RunInvoke(run, frame) ==
    [run EXCEPT !.frame = frame,
                !.pc = IF TokenCached(run.token) THEN "respWait" ELSE "loginWait"]

\* The client throws: execute catches the error or lets it propagate.
RunFails(run, error, message) ==
    [run EXCEPT !.pc = "done", !.raised = message,
                !.result = OnError(run.name, error, message)]

\* execute of a tool in one run, up to its first await.
RunExecute(run, password, name, params) ==
    LET host == HostConfig(Settings(Undefined, Str(Username), password), NoSettings)
        got == getClientOf(run.client, host)
        c == ClientCall(name, params, PairFile)
        started == [run EXCEPT !.password = password, !.client = got.client,
                               !.name = name, !.params = params, !.logins = 0,
                               !.raised = <<>>, !.result = NoResult]
    IN IF got.threw
       THEN [started EXCEPT !.pc = "done", !.result = OnError(name, "Error", got.message)]
       ELSE RunInvoke(started, [kind |-> c.kind, pc |-> "idle", stage |-> 1,
                                item |-> c.item, req |-> c.call])

\* Faulty variant: a login failure message that names the password.
AfterLoginNamingPassword(run, response) ==
    LET r == LoginResult(response) IN
    IF r.threw THEN RunFails(run, r.error, r.message \o <<" for ">> \o run.password[2])
    ELSE [run EXCEPT !.token = r.token, !.blank = @ \/ ~Truthy(r.token),
                     !.logins = @ + 1, !.pc = "respWait"]

\* Lines 794-802 in one run: the login failure, or the token stored and the
\* suspended fetch sent.
AfterLogin(run, response) ==
    LET r == LoginResult(response) IN
    IF r.threw THEN RunFails(run, r.error, r.message)
    ELSE [run EXCEPT !.token = r.token, !.blank = @ \/ ~Truthy(r.token),
                     !.logins = @ + 1, !.pc = "respWait"]

\* Lines 822-832 or 971-975 in one run, and the method and execute after them.
AfterResponse(run, response) ==
    LET f == run.frame
        r == IF f.req.multipart THEN AttachFileResult(response) ELSE RequestResult(response)
    IN IF r.kind = "threw" THEN RunFails(run, r.error, r.message)
       ELSE IF f.kind = "createItem" /\ f.stage = 1 /\ needsUpdate(f.item, r.value)
       THEN RunInvoke(run, [f EXCEPT !.stage = 2, !.req = updateCall(f.item, r.value)])
       ELSE [run EXCEPT !.pc = "done",
                        !.result = OnValue(run.name, run.params, returnValue(f.kind, r.value))]

\* The same tool is invoked with the same parameters in both runs; the first
\* invocation reads each run's configuration.
PairExecute ==
    /\ \A r \in 1..2 : runs.of[r].pc = "idle"
    /\ \E name \in Tools, pw \in Passwords :
        \E params \in PairParams(name) :
            /\ \A r \in 1..2 : runs.of[r].password \in {Undefined, pw[r]}
            /\ runs' = [of |-> [r \in 1..2 |-> RunExecute(runs.of[r], pw[r], name, params)],
                        logins |-> <<>>, answers |-> <<>>]
    /\ UNCHANGED <<client, ctor, token, seqVars, concVars, tool>>

\* The service answers a login of a run: as it answered the other run's login of
\* the same rank, with a token of the run's own.
RunLoginResponse(r) ==
    LET run == runs.of[r]
        k == run.logins + 1
    IN
    /\ run.pc = "loginWait"
    /\ \E answer \in (IF k <= Len(runs.logins) THEN {runs.logins[k]} ELSE PublicLoginAnswers),
          t \in PairTokens :
        runs' = [runs EXCEPT !.of[r] = AfterLogin(run, WithToken(answer, t)),
                             !.logins = IF k <= Len(@) THEN @ ELSE Append(@, answer)]
    /\ UNCHANGED <<client, ctor, token, seqVars, concVars, tool>>

\* The service answers a request of a run: as it answered the same request of the
\* other run.
RunResponse(r) ==
    LET run == runs.of[r]
        k == run.frame.stage
    IN
    /\ run.pc = "respWait"
    /\ \E answer \in (IF k <= Len(runs.answers) THEN {runs.answers[k]}
                       ELSE ServerResponses(run.frame.kind, k)) :
        runs' = [runs EXCEPT !.of[r] = AfterResponse(run, answer),
                             !.answers = IF k <= Len(@) THEN @ ELSE Append(@, answer)]
    /\ UNCHANGED <<client, ctor, token, seqVars, concVars, tool>>

\* The host has taken both results.
PairTake ==
    /\ \A r \in 1..2 : runs.of[r].pc = "done"
    /\ runs' = [of |-> [r \in 1..2 |-> [runs.of[r] EXCEPT !.pc = "idle"]],
                logins |-> <<>>, answers |-> <<>>]
    /\ UNCHANGED <<client, ctor, token, seqVars, concVars, tool>>

LoginOfRun == \E r \in 1..2 : RunLoginResponse(r)
ResponseOfRun == \E r \in 1..2 : RunResponse(r)

NextPair ==
    \/ PairExecute
    \/ LoginOfRun
    \/ ResponseOfRun
    \/ PairTake

SpecPair == Init /\ [][NextPair]_vars

-----------------------------------------------------------------------------
(* The earlier client, src/unnamed/part_002 lines 200-444 *)

\* String.prototype.indexOf: the first position (from 0) where p occurs in s, or -1.
indexOf(s, p) ==
    LET at == {i \in 0..(Len(s) - Len(p)) : SubSeq(s, i + 1, i + Len(p)) = p}
    IN IF at = {} THEN -1 ELSE CHOOSE i \in at : \A j \in at : i <= j

\* String.prototype.substring(from, to): both ends clamped to the string, swapped
\* when out of order.
substring(s, from, to) ==
    LET clamp(n) == IF n < 0 THEN 0 ELSE IF n > Len(s) THEN Len(s) ELSE n
        lo == IF clamp(from) <= clamp(to) THEN clamp(from) ELSE clamp(to)
        hi == IF clamp(from) <= clamp(to) THEN clamp(to) ELSE clamp(from)
    IN SubSeq(s, lo + 1, hi)

\* Array.prototype.join.
RECURSIVE join(_, _)
join(lines, sep) ==
    IF lines = <<>> THEN <<>>
    ELSE IF Len(lines) = 1 THEN lines[1]
    ELSE lines[1] \o <<sep>> \o join(Tail(lines), sep)

\* The lines pushed at lines 366-393 of part_002.
EarlierLines(form) ==
    LET delimiter == <<"--">> \o form.boundary
        field(name, value) ==
            <<delimiter, <<"Content-Disposition: form-data; name=\"", name, "\"">>, <<>>, value>>
    IN <<delimiter,
         <<"Content-Disposition: form-data; name=\"", "file", "\"; filename=\"">>
            \o form.fileName \o <<"\"">>,
         <<"Content-Type: application/octet-stream">>,
         <<>>>>
       \o field("name", form.fileName)
       \o (IF Truthy(form.type) THEN field("type", form.type[2]) ELSE <<>>)
       \o (IF form.primary # Undefined THEN field("primary", StringOf(form.primary)) ELSE <<>>)
       \o <<delimiter \o <<"--">>>>

\* Lines 395-410 of part_002: the text is cut after the file part's headers and the
\* rest is taken from the first delimiter that follows a line break.
EarlierMultipartBody(form) ==
    LET textPart == join(EarlierLines(form), CRLF)
        marker == <<"Content-Type: application/octet-stream", CRLF, CRLF>>
        delimiter == <<CRLF, "--">> \o form.boundary
        fileMarkerIndex == indexOf(textPart, marker)
        beforeFile == substring(textPart, 0, fileMarkerIndex + Len(marker))
        afterFile == substring(textPart, fileMarkerIndex + Len(marker), Len(textPart))
        afterFileStart == indexOf(afterFile, delimiter)
        endBuffer == delimiter \o <<"--", CRLF>>
    IN beforeFile \o form.file \o substring(afterFile, afterFileStart, Len(afterFile))
       \o endBuffer

\* The fetch of the earlier attachFile, lines 412-419 of part_002, and of the
\* earlier request(), lines 250-257.
EarlierWire(config, tok, call) ==
    IF call.multipart
    THEN [kind |-> "upload", method |-> "POST", url |-> config.baseUrl \o call.endpoint,
          contentType |-> <<"multipart/form-data; boundary=">> \o call.form.boundary,
          authorization |-> AuthorizationHeader(tok),
          hasBody |-> TRUE, body |-> {}, raw |-> EarlierMultipartBody(call.form)]
    ELSE ApiRequest(config, tok, call)

\* Lines 259-265 of part_002: what the earlier request() does with the response;
\* lines 421-425: what the earlier attachFile does with it.
EarlierResult(call, response) ==
    IF ~ok(response) THEN Threw("Error", ApiErrorMessage(response)) ELSE JsonOf(response)

\* What the earlier methods return: deleteAttachment awaits request() and returns
\* nothing (lines 427-432), attachFile returns the parsed body.
EarlierReturn(kind, value) == IF kind = "deleteAttachment" THEN UndefValue ELSE value

\* A method of the earlier client is called, up to its first fetch (line 216).
EarlierBegin(kind, call) ==
    /\ client.made
    /\ op.pc = "idle"
    /\ LET frame == [kind |-> kind, pc |-> "idle", stage |-> 1, item |-> {}, req |-> call] IN
       IF TokenCached(token)
       THEN /\ Sent(<<>>, EarlierWire(client.config, token, call))
            /\ op' = [frame EXCEPT !.pc = "respWait"]
       ELSE /\ Sent(<<>>, LoginRequest(client.config))
            /\ op' = [frame EXCEPT !.pc = "loginWait"]
    /\ resps' = <<>>
    /\ outcome' = NoOutcome
    /\ UNCHANGED <<client, ctor, token, loginHits>>
    /\ UNCHANGED <<concVars, tool, runs>>

\* The file names and contents the earlier attachFile is called with: plain ones,
\* and a name that holds a line break.
EarlierFileNames == {<<"a.jpg">>, <<"a", CRLF, "b.jpg">>}

earlierAttachFile ==
    \E id \in ItemIds, buf \in FileBuffers, name \in EarlierFileNames,
       ty \in OptionalStrings, pr \in OptionalBooleans, rnd \in Randoms :
        EarlierBegin("attachFile", attachCall(id, buf, name, ty, pr, rnd))
earlierDeleteAttachment ==
    \E id \in ItemIds, a \in AttachmentIds :
        EarlierBegin("deleteAttachment", deleteAttachmentCall(id, a))

\* The login exchange of the earlier client, lines 230-239 of part_002.
EarlierLoginResponse ==
    /\ op.pc = "loginWait"
    /\ \E response \in LoginResponses :
        LET r == LoginResult(response) IN
        /\ resps' = Append(resps, response)
        /\ IF r.threw
           THEN /\ Finish(Threw(r.error, r.message))
                /\ UNCHANGED <<token, loginHits, trace, first>>
           ELSE /\ token' = r.token
                /\ loginHits' = IF Truthy(r.token) THEN loginHits + 1 ELSE loginHits
                /\ Sent(trace, EarlierWire(client.config, r.token, op.req))
                /\ op' = [op EXCEPT !.pc = "respWait"]
                /\ outcome' = outcome
    /\ UNCHANGED <<client, ctor>>
    /\ UNCHANGED <<concVars, tool, runs>>

\* The fetch of the earlier request() or attachFile completes.
EarlierResponse ==
    /\ op.pc = "respWait"
    /\ \E response \in ServerResponses(op.kind, op.stage) :
        LET r == EarlierResult(op.req, response) IN
        /\ resps' = Append(resps, response)
        /\ Finish(IF r.kind = "threw" THEN r ELSE Returned(EarlierReturn(op.kind, r.value)))
    /\ UNCHANGED <<client, ctor, token, loginHits, trace, first>>
    /\ UNCHANGED <<concVars, tool, runs>>

NextEarlier ==
    \/ Construct
    \/ earlierAttachFile
    \/ earlierDeleteAttachment
    \/ EarlierLoginResponse
    \/ EarlierResponse
    \/ Settle

SpecEarlier == Init /\ [][NextEarlier]_vars

-----------------------------------------------------------------------------
(* attachFile over file names and contents of every kind *)

\* File names and contents that hold what the encoding uses itself: a double
\* quote, line breaks, the delimiter of the boundary that will be drawn (r1).
DrawnDelimiter == <<"--", "----WebKitFormBoundary", "r1">>
AnyFileNames ==
    {<<"a.jpg">>,
     <<"a", "\"", "b.jpg">>,
     <<"a", CRLF, CRLF, "b.jpg">>,
     <<"a", CRLF>> \o DrawnDelimiter \o <<CRLF, "b.jpg">>}
AnyFileBuffers ==
    {<<>>,
     <<"0x00", "0xff">>,
     <<"0x00", CRLF>> \o DrawnDelimiter \o <<"--", CRLF, "0xff">>,
     <<"0x00", CRLF>> \o DrawnDelimiter
        \o <<CRLF, "Content-Disposition: form-data; name=\"", "primary", "\"", CRLF, CRLF, "true">>}

attachAnyFile ==
    \E buf \in AnyFileBuffers, name \in AnyFileNames, ty \in OptionalStrings,
       pr \in OptionalBooleans, rnd \in Randoms :
        Begin("attachFile", {}, attachCall(<<"i1">>, buf, name, ty, pr, rnd))

NextUpload ==
    \/ Construct
    \/ attachAnyFile
    \/ LoginResponse
    \/ AttachFileResponse
    \/ Settle

SpecUpload == Init /\ [][NextUpload]_vars

\* The constructor alone, applied to every base URL of BaseUrls.
ConstructAny ==
    \E url \in BaseUrls :
        Constructor([baseUrl |-> url, username |-> Username, password |-> Password])

SpecCtor == Init /\ [][ConstructAny]_vars

-----------------------------------------------------------------------------
(* Vocabulary of the properties *)

Last(q) == q[Len(q)]
Done(kind) == op.kind = kind /\ op.pc = "done"

\* The request is the create POST /api/v1/items.
IsCreatePost(r) ==
    r.kind = "api" /\ r.method = "POST" /\ r.url = client.config.baseUrl \o <<"/api/v1/items">>
\* The request is the update PUT /api/v1/items/{id}.
IsUpdatePut(r, id) ==
    r.kind = "api" /\ r.method = "PUT"
    /\ r.url = client.config.baseUrl \o <<"/api/v1/items/">> \o id
IsPut(r) == r.kind = "api" /\ r.method = "PUT"

\* The exchange succeeded: a success status with the body the caller reads.
Answered(response) == ok(response) /\ (response.status = 204 \/ response.hasBody)
\* The record a successful exchange delivers.
Delivered(response) == IF response.status = 204 THEN ObjValue({}) ELSE response.body

\* The caller supplied field f / at least one extended field.
Supplied(item, f) == \E e \in item : e[1] = f /\ e[2] # "undef"
SuppliesExtended(item) ==
    \E f \in {"notes", "serialNumber", "modelNumber", "manufacturer", "insured", "archived",
              "lifetimeWarranty", "warrantyExpires", "warrantyDetails", "purchaseTime",
              "purchaseFrom", "purchasePrice"} : Supplied(item, f)
NarrowSubset == {"name", "quantity", "description", "locationId", "parentId", "tagIds"}

\* Positions of the create POST in the trace of the current operation.
CreatePosts == {i \in 1..Len(trace) : IsCreatePost(trace[i])}
\* A step in which the client sends a request of the given kinds.
SendsNow(kinds) == trace' # trace /\ trace' # <<>> /\ Last(trace').kind \in kinds

-----------------------------------------------------------------------------
(* createItem *)

\* C1 as stated: a finished createItem whose caller supplied an extended field and
\* whose create request succeeded has sent the POST and then the PUT for the created
\* item, and has returned the PUT response.
C1_PutAlwaysFollows ==
    (Done("createItem") /\ SuppliesExtended(op.item)
     /\ \E i \in CreatePosts : i <= Len(resps) /\ Answered(resps[i]))
    => \E i \in CreatePosts : \E j \in (i + 1)..Len(resps) :
          /\ IsPut(trace[j])
          /\ outcome = Returned(Delivered(resps[j]))

\* C1 amended: when the create response also carries a non-empty id, the POST is
\* followed by the update of that item: the PUT /api/v1/items/{id}, or the login
\* exchange that precedes it when no non-empty token is cached; the call ends as the
\* update ends and never returns the POST response.  Without an id in the create
\* response no request follows the POST and the POST response is returned.
C1_PutFollowsWhenIdReturned ==
    (Done("createItem") /\ SuppliesExtended(op.item))
    => \A i \in CreatePosts : (i <= Len(resps) /\ Answered(resps[i])) =>
          LET created == Delivered(resps[i])
              n == Len(trace)
          IN IF Truthy(Field(created, "id"))
             THEN /\ n > i
                  /\ \A j \in (i + 1)..n :
                        \/ IsUpdatePut(trace[j], Field(created, "id")[2]) /\ j = n
                        \/ trace[j].kind = "login" /\ j = i + 1
                  /\ IsPut(trace[n]) =>
                        IF Answered(resps[n])
                        THEN outcome = Returned(Delivered(resps[n]))
                        ELSE outcome.kind = "threw"
                  /\ trace[n].kind = "login" => outcome.kind = "threw"
                  /\ outcome # Returned(created)
             ELSE n = i /\ outcome = Returned(created)

\* A createItem with an extended field ended with the PUT response.
C1_Witness ==
    /\ Done("createItem") /\ SuppliesExtended(op.item)
    /\ Len(trace) >= 2 /\ IsCreatePost(trace[Len(trace) - 1]) /\ IsPut(Last(trace))
    /\ outcome.kind = "returned" /\ outcome.value = Delivered(Last(resps))
    /\ Field(outcome.value, "notes") = Str(<<"stored">>)

\* C2: the body of every POST /api/v1/items holds only fields of the narrow subset;
\* no extended field of the caller appears in it.
C2_CreateBodyNarrow ==
    \A i \in CreatePosts :
        /\ Keys(trace[i].body) \subseteq NarrowSubset
        /\ \A f \in NarrowSubset : Prop(trace[i].body, f) = Prop(op.item, f)

\* The create request of a caller who supplied an extended field.
C2_Witness ==
    /\ op.kind = "createItem" /\ Supplied(op.item, "notes") /\ Supplied(op.item, "tagIds")
    /\ CreatePosts # {}

\* C3 as stated: the PUT body includes id, name and quantity, every field the caller
\* supplied (name and quantity among them) with the caller's value, and no optional
\* field the caller did not supply.
C3_PutBodyCallerValues ==
    \A j \in 1..Len(trace) : IsPut(trace[j]) /\ op.kind = "createItem" =>
        /\ {"id", "name", "quantity"} \subseteq Keys(trace[j].body)
        /\ \A f \in {"name", "quantity"} \cup UpdateOptional :
              Prop(trace[j].body, f) = Prop(op.item, f)

\* C3 amended: id, name and quantity of the PUT body are those of the create response
\* (name or quantity is absent when the create response lacks it); every optional
\* field the caller supplied is in the body with the caller's value, and no other
\* field is.
C3_PutBodyFromCreatedAndCaller ==
    \A j \in 1..Len(trace) : IsPut(trace[j]) /\ op.kind = "createItem" =>
        \E i \in CreatePosts : i < j /\
            LET created == Delivered(resps[i])
                body == trace[j].body
            IN /\ \A f \in {"id", "name", "quantity"} : Prop(body, f) = Field(created, f)
               /\ "id" \in Keys(body)
               /\ \A f \in UpdateOptional : Prop(body, f) = Prop(op.item, f)
               /\ Keys(body) \subseteq {"id", "name", "quantity"} \cup UpdateOptional
               /\ \A e \in body : e[2] # "undef"

\* The PUT of a caller who supplied a basic and an extended optional field.
C3_Witness ==
    /\ op.kind = "createItem"
    /\ Supplied(op.item, "locationId") /\ Supplied(op.item, "manufacturer")
    /\ trace # <<>> /\ IsPut(Last(trace))

\* C4: a createItem whose caller supplied no extended field sends one write request,
\* the create POST, and no PUT; it returns the create response (when it is not
\* stopped by a failed login or a failed create).
C4_NoUpdateWithoutExtended ==
    (op.kind = "createItem" /\ ~SuppliesExtended(op.item)) =>
        LET writes == {i \in 1..Len(trace) : trace[i].kind # "login"}
        IN /\ \A i \in writes : IsCreatePost(trace[i])
           /\ Cardinality(writes) <= 1
           /\ op.pc = "done" =>
                 \/ /\ writes = {}
                    /\ outcome.kind = "threw" /\ Last(trace).kind = "login"
                 \/ /\ Cardinality(writes) = 1
                    /\ ~Answered(Last(resps)) /\ outcome.kind = "threw"
                 \/ /\ Cardinality(writes) = 1
                    /\ Answered(Last(resps)) /\ outcome = Returned(Delivered(Last(resps)))

\* A createItem with basic fields only returned the create response although that
\* response carries an id.
C4_Witness ==
    /\ Done("createItem") /\ ~SuppliesExtended(op.item) /\ Supplied(op.item, "description")
    /\ outcome.kind = "returned" /\ Truthy(Field(outcome.value, "id"))
    /\ IsCreatePost(Last(trace))

-----------------------------------------------------------------------------
(* Token caching *)

C7_BearerOnEveryRequest ==
    /\ [][SendsNow({"api", "upload"}) =>
            /\ token' # Null
            /\ Last(trace').authorization = <<"Bearer ">> \o token'[2]]_vars
    /\ [][client' # client => (trace' = trace /\ first' = first /\ trace = <<>>)]_vars
    /\ [](first \in {"none", "login"})
    /\ [](~client.made => first = "none")

\* An upload sent right after the login of the same call.
C7_Witness ==
    /\ Len(trace) = 2 /\ trace[1].kind = "login" /\ trace[2].kind = "upload"
    /\ trace[2].authorization = <<"Bearer ", "t", "2">>

-----------------------------------------------------------------------------
(* Constructor *)

\* s starts with p, compared without regard to case.
StartsWithIgnoringCase(s, p) ==
    /\ Len(s) >= Len(p)
    /\ \A i \in 1..Len(p) : s[i] \in {p[i], toUpperCaseChar(p[i])}

\* C8: the constructor throws the scheme error exactly for the base URLs that do
\* not start with http:// or https://, compared case-insensitively.
C8_SchemeValidation ==
    ctor.called =>
        LET accepted == \/ StartsWithIgnoringCase(ctor.baseUrl, HttpPrefix)
                        \/ StartsWithIgnoringCase(ctor.baseUrl, HttpsPrefix)
        IN /\ ctor.threw <=> ~accepted
           /\ ctor.threw => (ctor.message = SchemeError /\ ~client.made)
           /\ ~ctor.threw => (client.made /\ client.config.baseUrl = ctor.baseUrl)

\* A base URL with a capitalised scheme was accepted.
C8_Witness ==
    /\ ctor.called /\ ~ctor.threw /\ client.made
    /\ SubSeq(ctor.baseUrl, 1, 5) = <<"H", "t", "T", "p", "S">>

-----------------------------------------------------------------------------
(* Responses *)

C10_NoContentIsEmptyResult ==
    \A i \in 1..Len(resps) : (trace[i].kind = "api" /\ resps[i].status = 204) =>
        /\ i = Len(trace) /\ op.pc = "done"
        /\ outcome.kind = "returned"
        /\ outcome.value = (IF op.kind \in {"deleteItem", "deleteAttachment", "deleteLocation"}
                            THEN UndefValue
                            ELSE IF op.kind = "searchItems" THEN ArrValue(<<>>)
                            ELSE ObjValue({}))

\* deleteAttachment answered 204.
C10_Witness ==
    /\ Done("deleteAttachment") /\ Last(trace).method = "DELETE"
    /\ Last(resps).status = 204 /\ ~Last(resps).hasBody
    /\ outcome = Returned(UndefValue)

-----------------------------------------------------------------------------
(* searchItems *)

\* The search request of the current operation was answered with a success.
SearchAnswered ==
    /\ Done("searchItems") /\ Last(trace).kind = "api" /\ Last(trace).method = "GET"
    /\ Len(resps) = Len(trace) /\ Answered(Last(resps))

\* C14: searchItems returns the item list of a successful search response, and the
\* empty list, not an error, when the response lists no item or has no items field.
C14_SearchReturnsList ==
    SearchAnswered =>
        LET body == Delivered(Last(resps))
            listed == {e \in body.o : e[1] = "items" /\ e[2] = "arr" /\ e[3] # <<>>}
        IN /\ outcome.kind = "returned" /\ outcome.value.t = "arr"
           /\ \A e \in listed : outcome.value.s = e[3]
           /\ listed = {} => outcome.value.s = <<>>

\* A search answered with a record that has no items field returned the empty list.
C14_Witness ==
    /\ SearchAnswered /\ Last(resps).status = 200
    /\ Last(resps).body.o = {} /\ outcome = Returned(ArrValue(<<>>))

-----------------------------------------------------------------------------
(* Optional fields *)

\* The optional fields of the caller's input that the caller left absent.
LeftAbsent(input, fields) == {f \in fields : ~Supplied(input, f)}
LocationOptional == {"name", "description", "parentId"}
IsLocationWrite(r) ==
    r.kind = "api" /\ r.method \in {"POST", "PUT"}
    /\ \/ r.url = client.config.baseUrl \o <<"/api/v1/locations">>
       \/ startsWith(r.url, client.config.baseUrl \o <<"/api/v1/locations/">>)

\* C15: in every write request of createItem, createLocation and updateLocation an
\* optional field the caller left absent is absent from the body, and no field of
\* the body is null or undefined; the body of updateLocation is the target id plus
\* the fields the caller specified, with the caller's values.
C15_AbsentFieldsOmitted ==
    \A i \in 1..Len(trace) :
        LET r == trace[i] IN
        /\ (op.kind = "createItem" /\ r.kind = "api") =>
              /\ Keys(r.body) \cap LeftAbsent(op.item, UpdateOptional) = {}
              /\ \A e \in r.body : e[1] \in UpdateOptional => <<e[2], e[3]>> = Prop(op.item, e[1])
        /\ (op.kind \in {"createLocation", "updateLocation"} /\ r.kind = "api") =>
              /\ IsLocationWrite(r) /\ r.hasBody
              /\ Keys(r.body) \cap LeftAbsent(op.item, LocationOptional) = {}
              /\ \A e \in r.body : e[2] \notin {"undef", "null"}
              /\ \A f \in LocationOptional :
                    Supplied(op.item, f) => Prop(r.body, f) = Prop(op.item, f)
        /\ (op.kind = "createLocation" /\ r.kind = "api") =>
              Keys(r.body) \subseteq LocationOptional
        /\ (op.kind = "updateLocation" /\ r.kind = "api") =>
              /\ Keys(r.body) \subseteq {"id"} \cup LocationOptional
              /\ \E id \in LocationIds :
                    /\ r.url = client.config.baseUrl \o <<"/api/v1/locations/">> \o id
                    /\ Prop(r.body, "id") = Str(id)

\* An updateLocation whose caller specified only an empty description: the body is
\* the id and that description.
C15_Witness ==
    /\ op.kind = "updateLocation" /\ trace # <<>> /\ Last(trace).method = "PUT"
    /\ ~Supplied(op.item, "name") /\ ~Supplied(op.item, "parentId")
    /\ Last(trace).body = {<<"id", "str", <<"l2">>>>, <<"description", "str", <<>>>>}

-----------------------------------------------------------------------------
(* attachFile *)

\* The boundary the Content-Type header of an upload declares.
DeclaredBoundary(r) == Tail(r.contentType)
\* A scalar part and the file part, written out as they appear on the wire.
ScalarPart(b, name, value) ==
    <<"--">> \o b \o <<"\r\n", "Content-Disposition: form-data; name=\"", name, "\"",
                      "\r\n", "\r\n">> \o value \o <<"\r\n">>
FilePart(b, fileName, bytes) ==
    <<"--">> \o b \o <<"\r\n", "Content-Disposition: form-data; name=\"", "file",
                      "\"; filename=\"">> \o fileName
    \o <<"\"", "\r\n", "Content-Type: application/octet-stream", "\r\n", "\r\n">>
    \o bytes \o <<"\r\n">>
ClosingMarker(b) == <<"--">> \o b \o <<"--", "\r\n">>
\* The body of an upload: name, type when typed, primary when given, file, closing.
UploadLayout(r, form, typed) ==
    LET b == DeclaredBoundary(r) IN
    r.raw = ScalarPart(b, "name", form.fileName)
            \o (IF typed THEN ScalarPart(b, "type", form.type[2]) ELSE <<>>)
            \o (IF form.primary # Undefined
                THEN ScalarPart(b, "primary", form.primary[2]) ELSE <<>>)
            \o FilePart(b, form.fileName, form.file)
            \o ClosingMarker(b)
Uploads == {i \in 1..Len(trace) : trace[i].kind = "upload"}

-----------------------------------------------------------------------------
(* The stored token *)

IsBearerWord(w) == Len(w) = 6 /\ \A i \in 1..6 : w[i] \in {BearerWord[i], toUpperCaseChar(BearerWord[i])}
Blank(c) == c \in {" ", "\t"}
\* s begins with the word Bearer, in any case, followed by a blank.
BeginsWithBearer(s) == Len(s) >= 7 /\ IsBearerWord(SubSeq(s, 1, 6)) /\ Blank(s[7])
\* t is s without a leading Bearer word and all the blanks that follow it.
IsStripped(s, t) ==
    IF BeginsWithBearer(s)
    THEN \E k \in 7..Len(s) :
            /\ \A i \in 7..k : Blank(s[i])
            /\ k < Len(s) => ~Blank(s[k + 1])
            /\ t = SubSeq(s, k + 1, Len(s))
    ELSE t = s
\* The token strings successful logins of the current operation returned.
LoginsAnswered ==
    {i \in 1..Len(resps) :
        /\ trace[i].kind = "login" /\ ok(resps[i]) /\ resps[i].hasBody
        /\ \E e \in resps[i].body.o : e[1] = "token" /\ e[2] = "str"}
ReturnedToken(i) == Prop(resps[i].body.o, "token")[2]

\* C17 as stated: the cached token is the returned string without an optional
\* case-insensitive "Bearer " prefix, and it does not begin with a Bearer prefix.
C17_StoredTokenBare ==
    \A i \in LoginsAnswered : i = Len(resps) \/ i = Len(resps) - 1 =>
        /\ token[1] = "str" /\ IsStripped(ReturnedToken(i), token[2])
        /\ ~BeginsWithBearer(token[2])

\* C17 amended: the cached token is the returned string without one leading Bearer
\* word (in any case) and the whitespace that follows it; a string that does not
\* begin with that word followed by whitespace is stored unchanged.  The prefix is
\* removed once: the stored token begins with a Bearer prefix exactly when the
\* returned string repeated the prefix.
\* Every later request sends Authorization: "Bearer " followed by the stored token.
C17_StoredTokenStripped ==
    /\ [](\A i \in LoginsAnswered : i = Len(resps) \/ i = Len(resps) - 1 =>
            /\ token[1] = "str" /\ IsStripped(ReturnedToken(i), token[2])
            /\ BeginsWithBearer(token[2]) =>
                  /\ BeginsWithBearer(ReturnedToken(i))
                  /\ \E k \in 8..Len(ReturnedToken(i)) :
                        BeginsWithBearer(SubSeq(ReturnedToken(i), k, Len(ReturnedToken(i)))))
    /\ [][SendsNow({"api", "upload"}) =>
            /\ token'[1] = "str"
            /\ Last(trace').authorization = <<"Bearer ">> \o token'[2]]_vars
    /\ [][(token # Null /\ Truthy(token)) => token' = token]_vars

\* A login returned "BEARER t8": t8 is stored and sent.
C17_Witness ==
    /\ Len(trace) = 2 /\ 1 \in LoginsAnswered
    /\ ReturnedToken(1) = <<"B", "E", "A", "R", "E", "R", " ", "t", "8">>
    /\ token = Str(<<"t", "8">>)
    /\ trace[2].authorization = <<"Bearer ", "t", "8">>

-----------------------------------------------------------------------------
(* Concurrent use *)

\* The request() calls of a method call that sent a login request, and the requests
\* other than logins that a request() call sent.
LoginsOf(call) == {i \in 1..Len(call.tasks) : call.tasks[i].sent[1].kind = "login"}
RequestsOf(task) == {k \in 1..Len(task.sent) : task.sent[k].kind # "login"}
LoginsPending == \E p \in Callers : \E i \in 1..Len(procs[p].tasks) : procs[p].tasks[i].pc = "loginWait"
\* No login has stored an empty token.
NoEmptyToken == \A t \in issued.all : Truthy(t)

\* Every request other than a login carries the token a successful login returned.
CarriesIssuedToken ==
    \A p \in Callers : \A i \in 1..Len(procs[p].tasks) :
        \A k \in RequestsOf(procs[p].tasks[i]) :
            \E t \in issued.all :
                /\ procs[p].tasks[i].sent[k].authorization = <<"Bearer ">> \o t[2]
                /\ procs[p].tasks[i].tok = t
\* When no login is pending the cached token is the one the last login stored.
LastLoginWins == (~LoginsPending /\ issued.all # {}) => token = issued.last

\* C12 as stated: of the operations running concurrently on one client, each sends
\* at most one login request; every other request carries the token a successful
\* login returned; and when no login is pending the cached token is the one stored
\* by the login that completed last.
C12_OneLoginPerOperation ==
    /\ \A p \in Callers : Cardinality(LoginsOf(procs[p])) <= 1
    /\ CarriesIssuedToken
    /\ LastLoginWins

\* C12 amended: each operation sends at most one login request as long as no login
\* has returned an empty token (after one, createItem logs in again for its PUT);
\* every request() call sends at most one login request, before its own request;
\* the other two parts hold as stated.
C12_OneLoginUnlessEmptyToken ==
    /\ NoEmptyToken => \A p \in Callers : Cardinality(LoginsOf(procs[p])) <= 1
    /\ \A p \in Callers : \A i \in 1..Len(procs[p].tasks) :
          /\ Cardinality({k \in 1..Len(procs[p].tasks[i].sent) :
                              procs[p].tasks[i].sent[k].kind = "login"}) <= 1
          /\ Len(procs[p].tasks[i].sent) <= 2
    /\ CarriesIssuedToken
    /\ LastLoginWins

\* Two callers each logged in; the second token to arrive is the cached one, and a
\* request of the first caller still carries the first.
C12_Witness ==
    /\ \A p \in Callers : Cardinality(LoginsOf(procs[p])) = 1
    /\ issued.all = {Str(<<"t", "1">>), Str(<<"t", "2">>)} /\ token = Str(<<"t", "2">>)
    /\ \E p \in Callers : \E i \in 1..Len(procs[p].tasks) :
          /\ Len(procs[p].tasks[i].sent) = 2
          /\ procs[p].tasks[i].sent[2].authorization = <<"Bearer ", "t", "1">>

-----------------------------------------------------------------------------
(* searchItemsExtended *)

\* The searchItemsExtended call, once its keyword search has returned its matches.
Fan == procs[1]
FannedOut == Fan.kind = "searchItemsExtended" /\ Fan.stage = 2
MatchedIds == {Fan.matches[k] : k \in {j \in 1..Len(Fan.matches) : Fan.matches[j] # "anon"}}
IsDetailGet(r, id) ==
    r.kind = "api" /\ r.method = "GET" /\ r.url = client.config.baseUrl \o <<"/api/v1/items/", id>>
\* The detail requests sent for id, as (task, position) pairs.
DetailRequests(id) ==
    {<<i, k>> \in (1..Len(Fan.tasks)) \X (1..2) :
        k <= Len(Fan.tasks[i].sent) /\ IsDetailGet(Fan.tasks[i].sent[k], id)}
DetailFailed == \E i \in 1..Len(Fan.tasks) : Fan.tasks[i].result.kind = "threw"

\* If a detail request (or the login before it) fails, the call fails at once; the
\* call returns a list only when every detail arrived, one entry per match.
AllOrNothing ==
    /\ DetailFailed => (Fan.pc = "done" /\ Fan.outcome.kind = "threw")
    /\ (Fan.pc = "done" /\ Fan.outcome.kind = "returned") =>
          /\ ~DetailFailed
          /\ \A id \in MatchedIds : Cardinality(DetailRequests(id)) = 1
          /\ Len(Fan.outcome.value.s) = Len(Fan.matches)

\* C13 as stated: once the keyword search has returned, exactly one detail request
\* GET /api/v1/items/{id} is out for every matched id; if a detail request fails the
\* call fails, and it returns no partial list.
C13_OneDetailPerMatch ==
    FannedOut =>
        /\ \A id \in MatchedIds : Cardinality(DetailRequests(id)) = 1
        /\ AllOrNothing

\* C13 amended: once the keyword search has returned, exactly one detail request is
\* out for every matched id as long as no login has returned an empty token; after
\* one, each detail fetch logs in first and its request is sent at most once, only
\* when that login succeeds.  The call fails when a detail request fails and
\* returns no partial list.
C13_OneDetailUnlessEmptyToken ==
    FannedOut =>
        /\ NoEmptyToken => \A id \in MatchedIds : Cardinality(DetailRequests(id)) = 1
        /\ \A id \in MatchedIds : Cardinality(DetailRequests(id)) <= 1
        /\ Len(Fan.tasks) = Cardinality(MatchedIds)
        /\ AllOrNothing

\* Two matches, one detail arrived and the other failed: the call threw.
C13_Witness ==
    /\ FannedOut /\ Cardinality(MatchedIds) = 2 /\ Fan.pc = "done"
    /\ Fan.outcome.kind = "threw"
    /\ \E i \in 1..2 : Fan.tasks[i].result.kind = "returned"

-----------------------------------------------------------------------------
(* The tools *)

\* The invocation has ended after its client call failed / returned.
ClientCallFailed == tool.pc = "done" /\ op.pc = "done" /\ outcome.kind = "threw"
ClientCallReturned == tool.pc = "done" /\ op.pc = "done" /\ outcome.kind = "returned"
\* The invocation has ended in getClient: no client exists and no call was made.
GetClientFailed == tool.pc = "done" /\ ~client.made
\* The result is a text that starts with the failure mark and ends with the message.
FailureText(result, message) ==
    /\ result.kind = "text"
    /\ Len(result.text) >= 2 + Len(message)
    /\ result.text[1] = "<U+2717>"
    /\ SubSeq(result.text, 3, Len(result.text)) = message
CrudTools ==
    {"homebox_add_item", "homebox_attach_file", "homebox_delete_item",
     "homebox_remove_attachment", "homebox_create_location", "homebox_update_location",
     "homebox_delete_location"}
Tools4to9 == CrudTools \ {"homebox_add_item"}

\* C18 as stated: when the client call of one of the seven CRUD/attachment tools
\* fails, the tool returns a text that starts with the failure mark; it does not
\* propagate the error.
C18_CrudToolsCatch ==
    (ClientCallFailed /\ tool.name \in CrudTools) => FailureText(tool.result, outcome.message)

\* C19 as stated: when getClient throws the configuration error or the scheme error,
\* the invocation ends with that error propagated, whatever the tool; it is not
\* rendered as a text result.
C19_ConfigErrorsPropagate ==
    GetClientFailed =>
        /\ tool.result.kind = "threw"
        /\ tool.result.message \in {ConfigError, SchemeError}

-----------------------------------------------------------------------------
(* C11 *)

BothDone == \A r \in 1..2 : runs.of[r].pc = "done"
Surfaced(r) == [raised |-> runs.of[r].raised, result |-> runs.of[r].result]
NonEmptySecrets == \A r \in 1..2 : Truthy(runs.of[r].password) /\ ~runs.of[r].blank

\* C11 as stated: two runs that are given the same invocations and the same service
\* answers and differ only in the password and in the tokens login returns surface
\* the same client error and the same tool result.
C11_MessagesIndependentOfSecrets == BothDone => Surfaced(1) = Surfaced(2)

\* C11 as the code has it: the same, for passwords that are not empty and tokens
\* that are not empty once the Bearer prefix is removed.
C11_MessagesIndependentOfNonEmptySecrets ==
    (BothDone /\ NonEmptySecrets) => Surfaced(1) = Surfaced(2)

\* C11 witness: both runs have ended an invocation in which the client raised an
\* error, with different passwords and different non-empty tokens stored, and the
\* tool rendered the error as a text.
C11_Witness ==
    /\ BothDone /\ NonEmptySecrets
    /\ runs.of[1].password # runs.of[2].password
    /\ Truthy(runs.of[1].token) /\ Truthy(runs.of[2].token)
    /\ runs.of[1].token # runs.of[2].token
    /\ runs.of[1].raised # <<>>
    /\ runs.of[1].result.kind = "text"
    /\ Surfaced(1) = Surfaced(2)

-----------------------------------------------------------------------------
(* C21 *)

\* A setting is present when it holds a non-empty value.
Present(v) == v[1] = "str" /\ v[2] # <<>>
FromConfigElseEnv(host, field) ==
    IF Present(host.plugin[field]) THEN host.plugin[field] ELSE host.env[field]
ResolvedBaseUrl(host) ==
    IF Present(FromConfigElseEnv(host, "baseUrl")) THEN FromConfigElseEnv(host, "baseUrl")
    ELSE Str(HttpPrefix \o <<"localhost", ":", "3100">>)
CredentialsMissing(host) ==
    ~Present(FromConfigElseEnv(host, "username")) \/ ~Present(FromConfigElseEnv(host, "password"))
ConfigErrorSurfaced(result) ==
    IF result.kind = "threw" THEN result.message = ConfigError
    ELSE result.kind = "text" /\ Len(result.text) >= 2
         /\ SubSeq(result.text, 3, Len(result.text)) = ConfigError

-----------------------------------------------------------------------------
(* C22 *)

AttachEndedOnMissingFile ==
    tool.pc = "done" /\ tool.name = "homebox_attach_file" /\ tool.file.state = "missing"
FileNotFound(file) == TextResult(<<"<U+2717>", " File not found: ">> \o file.path)
NoRequestSent == trace = <<>> /\ resps = <<>> /\ op.pc = "idle"

-----------------------------------------------------------------------------
(* C23, C24: the earlier client *)

\* The positions (from 0) where p occurs in s.
Occurrences(s, p) == {i \in 0..(Len(s) - Len(p)) : SubSeq(s, i + 1, i + Len(p)) = p}
Contains(s, p) == Occurrences(s, p) # {}

\* C23: the body of every upload of the earlier attachFile contains a name part
\* holding fileName, contains the file bytes right after the file part's headers and
\* up to the next delimiter, and contains the closing marker exactly once, whether
\* or not type and primary are provided.
C23_EarlierBodyComplete ==
    \A i \in Uploads :
        LET b == DeclaredBoundary(trace[i])
            form == op.req.form
        IN /\ Contains(trace[i].raw, ScalarPart(b, "name", form.fileName))
           /\ Contains(trace[i].raw,
                       <<"Content-Type: application/octet-stream", "\r\n", "\r\n">>
                       \o form.file \o <<"\r\n", "--">> \o b)
           /\ Cardinality(Occurrences(trace[i].raw, <<"--">> \o b \o <<"--">>)) = 1

\* C24: when the DELETE of the earlier deleteAttachment is answered 204 without a
\* body, the method returns, with no value.
C24_EarlierDeleteOnNoContent ==
    (Done("deleteAttachment") /\ resps # <<>> /\ Last(resps) = NoContent
     /\ Last(trace).kind = "api")
        => outcome = Returned(UndefValue)

-----------------------------------------------------------------------------
(* C25, C26: logins over a sequence of operations *)

\* A login of the operation in progress was answered with a success response.
LoginSucceeded == \E i \in 1..Len(resps) : trace[i].kind = "login" /\ ok(resps[i])
\* s without a leading Bearer word and the blanks after it is not empty.
NonEmptyBare(s) == IF BeginsWithBearer(s) THEN \E i \in 8..Len(s) : ~Blank(s[i]) ELSE s # <<>>
\* The same, and the response carried a token string that is not empty once the
\* Bearer prefix is removed.
LoginReturnedToken == \E i \in LoginsAnswered : NonEmptyBare(ReturnedToken(i))
LoginWaiting == op.pc = "loginWait"

LoginFailed ==
    /\ op.pc = "done" /\ resps # <<>> /\ Len(resps) <= Len(trace)
    /\ trace[Len(resps)].kind = "login" /\ ~ok(Last(resps))
LoginFailedError == Threw("Error", <<"HomeBox login failed: ">> \o Last(resps).statusText)
LoginFailsNow == op.pc = "loginWait" /\ op'.pc = "done" /\ ~ok(Last(resps'))

-----------------------------------------------------------------------------
(* C27 *)

\* The requests of the operation in progress that were answered with a non-success
\* status.
Failed(i) == i <= Len(resps) /\ ~ok(resps[i])
ApiErrorOf(response) ==
    Threw("Error", <<"HomeBox API error ", ToString(response.status), ": ">>
                   \o response.statusText)
CreateEnded == op.kind = "createItem" /\ op.pc = "done"

\* C27: a createItem whose POST is answered with a non-success status raises that
\* API error and sends no PUT; one whose PUT is answered with a non-success status
\* after a successful POST raises that API error and sends nothing after the PUT, no
\* DELETE in particular; a createItem that has ended sends nothing more.
C27_CreateNeverCompensates ==
    /\ [](CreateEnded =>
            \A i \in 1..Len(trace) :
                /\ (IsCreatePost(trace[i]) /\ Failed(i)) =>
                        /\ i = Len(trace)
                        /\ outcome = ApiErrorOf(resps[i])
                        /\ \A j \in 1..Len(trace) : ~IsPut(trace[j])
                /\ (IsPut(trace[i]) /\ Failed(i)) =>
                        /\ i = Len(trace)
                        /\ outcome = ApiErrorOf(resps[i])
                        /\ \E j \in 1..(i - 1) : IsCreatePost(trace[j]) /\ ok(resps[j])
                        /\ \A j \in 1..Len(trace) : trace[j].method # "DELETE")
    /\ [][CreateEnded => ~SendsNow({"login", "api", "upload"})]_vars

\* C27 witness: a createItem has ended on the API error of its PUT, which followed
\* a successful POST; the PUT is the last request.
C27_Witness ==
    /\ CreateEnded /\ Len(trace) = 3 /\ Len(resps) = 3
    /\ IsCreatePost(trace[2]) /\ ok(resps[2])
    /\ IsPut(trace[3]) /\ resps[3].status = 500
    /\ outcome = ApiErrorOf(resps[3])

-----------------------------------------------------------------------------
(* C28 *)

Searching == Fan.kind = "searchItemsExtended" /\ Fan.stage = 1
\* The call was started without a cached token: its keyword search began with a
\* login request.
StartedWithoutToken == Searching /\ Fan.tasks[1].sent[1].kind = "login"
LoginsSentBy(task) == {k \in 1..Len(task.sent) : task.sent[k].kind = "login"}

\* C28: as long as no login has returned an empty token, a searchItemsExtended call
\* started without a cached token performs exactly one login, that of its keyword
\* search: when the search returns, the token is cached and every detail fetch is
\* sent at once, without a login, all with the same Authorization header.
C28_SingleLoginBeforeFanOut ==
    /\ [](StartedWithoutToken =>
            /\ Len(Fan.tasks) = 1
            /\ LoginsSentBy(Fan.tasks[1]) = {1})
    /\ [][(StartedWithoutToken /\ Fan'.stage = 2 /\ NoEmptyToken) =>
            /\ Truthy(token) /\ token' = token
            /\ Len(Fan.tasks[1].sent) = 2
            /\ \A i \in 1..Len(Fan'.tasks) :
                  /\ Fan'.tasks[i].sent = <<WireRequest(client.config, token, Fan'.tasks[i].call)>>
                  /\ Fan'.tasks[i].sent[1].authorization = <<"Bearer ">> \o token[2]]_vars
    /\ []((FannedOut /\ NoEmptyToken) =>
            \A i \in 1..Len(Fan.tasks) :
                /\ LoginsSentBy(Fan.tasks[i]) = {}
                /\ Len(Fan.tasks[i].sent) = 1
                /\ \A j \in 1..Len(Fan.tasks) :
                      Fan.tasks[i].sent[1].authorization = Fan.tasks[j].sent[1].authorization)

\* C28 witness: the call's login is the only login there has been; two detail
\* fetches are out, both with the token it returned, and no other caller is active.
C28_Witness ==
    /\ FannedOut /\ Cardinality(MatchedIds) = 2 /\ Len(Fan.tasks) = 2
    /\ issued.all = {Str(<<"t", "1">>)} /\ token = Str(<<"t", "1">>)
    /\ \A p \in Callers \ {1} : procs[p].pc = "idle"
    /\ \A i \in 1..2 :
          /\ Fan.tasks[i].pc = "respWait"
          /\ Fan.tasks[i].sent[1].authorization = <<"Bearer ", "t", "1">>

-----------------------------------------------------------------------------
(* C29 *)

InvocationStarts == tool.pc = "idle" /\ tool'.pc # "idle"
\* The settings found resolve to credentials and a base URL of an accepted scheme.
Constructible(host) ==
    /\ ~CredentialsMissing(host)
    /\ \/ StartsWithIgnoringCase(ResolvedBaseUrl(host)[2], <<"h", "t", "t", "p", ":", "/", "/">>)
       \/ StartsWithIgnoringCase(ResolvedBaseUrl(host)[2],
                                 <<"h", "t", "t", "p", "s", ":", "/", "/">>)

\* C29: once a client has been constructed it is never replaced and no other is
\* constructed, whatever configuration later invocations find; an invocation that
\* finds it with a token cached sends its request with that token, without a login;
\* an invocation whose settings do not resolve or whose construction fails leaves no
\* client, and an invocation that finds no client resolves the settings again and
\* constructs one when they allow it.
C29_OneClientPerRegistration ==
    /\ [][client.made => (client' = client /\ ctor' = ctor)]_vars
    /\ [][(InvocationStarts /\ client.made /\ Truthy(token) /\ tool'.pc = "client") =>
            /\ Len(trace') = 1 /\ trace'[1].kind \in {"api", "upload"}
            /\ trace'[1].authorization = <<"Bearer ">> \o token[2]
            /\ trace'[1].url = client.config.baseUrl \o op'.req.endpoint]_vars
    /\ [][(InvocationStarts /\ ~client.made) =>
            (client'.made <=> Constructible(tool'.host))]_vars
    /\ [](GetClientFailed => (token = Null /\ trace = <<>>))

\* C29 witness: an invocation that found other settings than those the client was
\* constructed from has sent its request at once, with the client's base URL and
\* the token an earlier invocation cached.
C29_Witness ==
    /\ tool.pc = "client" /\ client.made /\ Truthy(token)
    /\ Len(trace) = 1 /\ trace[1].kind = "api"
    /\ CredentialsMissing(tool.host)
    /\ trace[1].authorization = <<"Bearer ">> \o token[2]

-----------------------------------------------------------------------------
(* C30: the multipart body read back *)

\* s cut at every occurrence of d, from the left.
RECURSIVE SplitAt(_, _)
SplitAt(s, d) ==
    LET at == Occurrences(s, d) IN
    IF at = {} THEN <<s>>
    ELSE LET i == CHOOSE x \in at : \A y \in at : x <= y
         IN <<SubSeq(s, 1, i)>> \o SplitAt(SubSeq(s, i + Len(d) + 1, Len(s)), d)

\* The value of a quoted parameter: what precedes the closing double quote.
UpToQuote(s) ==
    LET at == Occurrences(s, <<"\"">>) IN
    IF at = {} THEN s ELSE SubSeq(s, 1, CHOOSE x \in at : \A y \in at : x <= y)

\* One part as a multipart reader sees it: headers up to the first empty line, the
\* name and filename parameters of its Content-Disposition, and the content.
ReadPart(segment) ==
    LET t == IF segment # <<>> /\ segment[1] = "\r\n" THEN Tail(segment) ELSE segment
        ends == Occurrences(t, <<"\r\n", "\r\n">>)
        h == IF ends = {} THEN Len(t) ELSE CHOOSE x \in ends : \A y \in ends : x <= y
        lines == SplitAt(SubSeq(t, 1, h), <<"\r\n">>)
        cd == lines[1]
        named == Len(cd) >= 2 /\ cd[1] = "Content-Disposition: form-data; name=\""
        filed == named /\ Len(cd) >= 3 /\ cd[3] = "\"; filename=\""
    IN [name |-> IF named THEN <<cd[2]>> ELSE <<>>,
        hasFilename |-> filed,
        filename |-> IF filed THEN UpToQuote(SubSeq(cd, 4, Len(cd))) ELSE <<>>,
        headers |-> Len(lines),
        content |-> SubSeq(t, h + 3, Len(t))]

\* The parts of a body with boundary b: the body is cut at each line break followed
\* by "--" and b, up to the first such delimiter that is followed by "--".
ReadParts(body, b) ==
    LET segments == SplitAt(<<"\r\n">> \o body, <<"\r\n", "--">> \o b)
        closing == {k \in 2..Len(segments) : segments[k] # <<>> /\ segments[k][1] = "--"}
        last == IF closing = {} THEN Len(segments)
                ELSE (CHOOSE k \in closing : \A j \in closing : k <= j) - 1
    IN [k \in 1..(last - 1) |-> ReadPart(segments[k + 1])]

\* The parts attachFile emits for a form, lines 932-958.
EmittedScalar(name, value) ==
    [name |-> <<name>>, hasFilename |-> FALSE, filename |-> <<>>, headers |-> 1,
     content |-> value]
EmittedParts(form) ==
    <<EmittedScalar("name", form.fileName)>>
    \o (IF Truthy(form.type) THEN <<EmittedScalar("type", form.type[2])>> ELSE <<>>)
    \o (IF form.primary # Undefined
        THEN <<EmittedScalar("primary", StringOf(form.primary))>> ELSE <<>>)
    \o <<[name |-> <<"file">>, hasFilename |-> TRUE, filename |-> form.fileName,
          headers |-> 2, content |-> form.file]>>

\* C30: the body of every upload, read back at the boundary its Content-Type header
\* declares, gives the parts that were emitted, in order: the name part holding
\* fileName, the optional parts, and the file part with filename fileName and the
\* file content; whatever the file name and the content hold.
C30_BodyReadsBack ==
    \A i \in Uploads :
        ReadParts(trace[i].raw, DeclaredBoundary(trace[i])) = EmittedParts(op.req.form)

====
